---- MODULE Spec2Model ----
(***************************************************************************)
(* Retrieval pipeline of the RAG service: semantic search adapter,         *)
(* disambiguation engine, context assembler and query orchestrator.        *)
(*                                                                         *)
(* Conventions                                                             *)
(*  - A relevance score is written as an integer number of tenths (7 is   *)
(*    the float 0.7).  A combined score is the float the code computes:    *)
(*    binary64 arithmetic, every operation rounded to nearest even.        *)
(*  - Python's None for an optional value is the empty tuple None, a       *)
(*    present value v is Some(v).  A missing section is the empty string:  *)
(*    the code only ever tests a section for truthiness, which None and "" *)
(*    fail alike.                                                          *)
(*  - token_count is a field of the result: the tokenizer is a fixed       *)
(*    function of the formatted chunk text, so the count is an attribute   *)
(*    of the result for the format options in force.                       *)
(***************************************************************************)
EXTENDS Integers, Sequences, FiniteSets, TLC

VARIABLES
    pc,             \* position of the operation under way
    results,        \* List[SearchResult] handed to the pure stages
    args,           \* arguments of the call that produced the outputs below
    entity_groups,  \* disambiguate_results: local entity_groups (grouping step)
    groups,         \* disambiguate_results: returned group list
    options,        \* disambiguate_results: returned options (None or a list)
    window,         \* ContextWindow returned by the context builder (None before)
    request,        \* the request being served by search / process_query
    calls,          \* collaborator calls issued so far, in order
    query_response, \* what the index client's query_points returned (None before)
    vector_results, \* what VectorStore.search_similar returned (None before)
    search_response,\* SearchResponse of SemanticSearchService.search (None before)
    response,       \* QueryHandlerResponse of process_query (None before)
    outcome,        \* "pending", "returned" or "raised": how the request ended
    faulted,        \* the stage that raised, "none" if no stage did
    query_in,       \* the text handed to normalize_query
    query_out,      \* what normalize_query gave for it (None before)
    scored,         \* the response handed to calculate_confidence_score
    confidence,     \* the confidence score returned, in thousandths (None before)
    runs,           \* outputs of the runs of the pure stages on `results`
    first_text,     \* text of the first result of a group, as character codes
    sample_text,    \* sample_text of the option made for that group (None before)
    selection,      \* a call of select_entity_group and what it returned (None before)
    http_response,  \* answer of POST /api/search/context (None before)
    episodes,       \* rows of the episodes table of one feed, in insertion order
    pending,        \* Episode objects added to the session and not yet flushed
    feed_call,      \* the last ingestion call and how it ended (None before)
    episode,        \* the row of the episode that process_episode_task is given
    task,           \* process_episode_task: its position, locals and outcome
    option_list,    \* the DisambiguationOption objects handed to build_disambiguation_context
    options_given,  \* those options as they were before the first call
    contexts,       \* the calls of build_disambiguation_context so far and their strings
    document,       \* the row of the documents table (None before the upload)
    task_queue,     \* process_pdf tasks queued and not yet started, oldest first
    running,        \* the process_pdf task the worker is running (None if idle)
    admitted,       \* API requests that passed their status check and have not yet re-queued
    api_answer,     \* the last answer of the documents API (None before)
    last_run,       \* how the last process_pdf task ended and the row it left (None before)
    accepted,       \* number of requests that queued a task
    transcript_segments, \* texts of the segments handed to chunk_transcript
    chunker         \* the TranscriptChunker call: its configuration, loop position and chunks

queryVars == <<request, calls, query_response, vector_results, search_response,
               response, outcome, faulted>>

normVars == <<query_in, query_out>>

confVars == <<scored, confidence>>

runVars == <<runs>>

sampleVars == <<first_text, sample_text>>

selectVars == <<selection, http_response>>

feedVars == <<episodes, pending, feed_call>>

taskVars == <<episode, task>>

optionVars == <<option_list, options_given, contexts>>

docVars == <<document, task_queue, running, admitted, api_answer, last_run, accepted>>

chunkVars == <<transcript_segments, chunker>>

auxVars == <<normVars, confVars, runVars, sampleVars, selectVars, feedVars,
             taskVars, optionVars, docVars, chunkVars>>

\* the auxiliary variables a given operation leaves alone
notNorm == <<confVars, runVars, sampleVars, selectVars, feedVars, taskVars,
             optionVars, docVars, chunkVars>>

notConf == <<normVars, runVars, sampleVars, selectVars, feedVars, taskVars,
             optionVars, docVars, chunkVars>>

notRun == <<normVars, confVars, sampleVars, selectVars, feedVars, taskVars,
            optionVars, docVars, chunkVars>>

notSample == <<normVars, confVars, runVars, selectVars, feedVars, taskVars,
               optionVars, docVars, chunkVars>>

notSelect == <<normVars, confVars, runVars, sampleVars, feedVars, taskVars,
               optionVars, docVars, chunkVars>>

notFeed == <<normVars, confVars, runVars, sampleVars, selectVars, taskVars,
             optionVars, docVars, chunkVars>>

notTask == <<normVars, confVars, runVars, sampleVars, selectVars, feedVars,
             optionVars, docVars, chunkVars>>

notOption == <<normVars, confVars, runVars, sampleVars, selectVars, feedVars,
               taskVars, docVars, chunkVars>>

notDoc == <<normVars, confVars, runVars, sampleVars, selectVars, feedVars,
            taskVars, optionVars, chunkVars>>

notChunk == <<normVars, confVars, runVars, sampleVars, selectVars, feedVars,
              taskVars, optionVars, docVars>>

vars == <<pc, results, args, entity_groups, groups, options, window, queryVars,
          auxVars>>

(***************************************************************************)
(* Bounds and input domains                                                *)
(***************************************************************************)
MaxResults == 7
MaxChunksPerDocument == 3

DocumentIds == <<"d1", "d2", "d3", "d4", "d5", "d6", "d7", "d8">>
Sections == {"", "intro"}
Scores == {4, 8}
Thresholds == {5, 8}
MaxGroupsArgs == {0, 1, 2, 5}

MaxContextResults == 4
TokenCounts == {100, 3000}

None == <<>>
Some(v) == <<v>>

Min(a, b) == IF a <= b THEN a ELSE b
Max(a, b) == IF a >= b THEN a ELSE b

(***************************************************************************)
(* Python sequence helpers                                                 *)
(***************************************************************************)
\* s[:k] for a list s and any integer k
SliceTo(s, k) ==
    IF k >= 0 THEN SubSeq(s, 1, Min(k, Len(s)))
              ELSE SubSeq(s, 1, Max(0, Len(s) + k))

\* keys of a dict filled in the order of s: first-seen order, no repeats
RECURSIVE FirstSeen(_)
FirstSeen(s) ==
    IF s = <<>> THEN <<>>
    ELSE LET front == FirstSeen(SubSeq(s, 1, Len(s) - 1))
             last  == s[Len(s)]
         IN IF \E i \in DOMAIN front : front[i] = last
            THEN front ELSE Append(front, last)

(***************************************************************************)
(* Python float arithmetic: scores are floats and _calculate_combined_score *)
(* adds, multiplies and divides them, each operation rounded.               *)
(***************************************************************************)
RECURSIVE Pow2(_)
Pow2(n) == IF n = 0 THEN 1 ELSE 2 * Pow2(n - 1)

\* a natural number is a sequence of limbs of LimbBits bits, lowest first,
\* without leading zero limbs
LimbBits == 14

Base == Pow2(LimbBits)

RECURSIVE BitsOf(_)
BitsOf(n) == IF n = 0 THEN 0 ELSE 1 + BitsOf(n \div 2)

RECURSIVE Trim(_)
Trim(a) == IF a = <<>> \/ a[Len(a)] # 0 THEN a
           ELSE Trim(SubSeq(a, 1, Len(a) - 1))

Limb(a, i) == IF i \in DOMAIN a THEN a[i] ELSE 0

RECURSIVE Carry(_, _)
Carry(a, c) ==
    IF a = <<>>
    THEN IF c = 0 THEN <<>> ELSE <<c % Base>> \o Carry(<<>>, c \div Base)
    ELSE LET t == a[1] + c IN <<t % Base>> \o Carry(Tail(a), t \div Base)

BigOfInt(n) == Trim(Carry(<<>>, n))

BigAdd(a, b) ==
    LET n == IF Len(a) >= Len(b) THEN Len(a) ELSE Len(b)
    IN Trim(Carry([i \in 1..n |-> Limb(a, i) + Limb(b, i)], 0))

RECURSIVE BorrowFrom(_, _, _, _)
BorrowFrom(a, b, i, br) ==
    IF i > Len(a) THEN <<>>
    ELSE LET t == a[i] - Limb(b, i) - br
         IN IF t < 0 THEN <<t + Base>> \o BorrowFrom(a, b, i + 1, 1)
                     ELSE <<t>> \o BorrowFrom(a, b, i + 1, 0)

BigSub(a, b) == Trim(BorrowFrom(a, b, 1, 0))

RECURSIVE GEFrom(_, _, _)
GEFrom(a, b, i) ==
    IF i = 0 THEN TRUE
    ELSE IF a[i] # b[i] THEN a[i] > b[i]
    ELSE GEFrom(a, b, i - 1)

BigGE(a, b) == IF Len(a) # Len(b) THEN Len(a) > Len(b) ELSE GEFrom(a, b, Len(a))

BigMul(a, b) ==
    IF a = <<>> \/ b = <<>> THEN <<>>
    ELSE LET At(k) ==
                 LET RECURSIVE S(_)
                     S(i) == IF i = 0 THEN 0
                             ELSE S(i - 1) + (IF (k + 1 - i) \in DOMAIN b
                                              THEN a[i] * b[k + 1 - i] ELSE 0)
                 IN S(Len(a))
         IN Trim(Carry([k \in 1..(Len(a) + Len(b) - 1) |-> At(k)], 0))

BitLen(a) == IF a = <<>> THEN 0
             ELSE (Len(a) - 1) * LimbBits + BitsOf(a[Len(a)])

Bit(a, k) == (Limb(a, (k \div LimbBits) + 1) \div Pow2(k % LimbBits)) % 2

BigShl(a, n) ==
    IF a = <<>> THEN <<>>
    ELSE LET q == n \div LimbBits
             r == n % LimbBits
         IN [i \in 1..q |-> 0]
              \o Trim(Carry([i \in 1..Len(a) |-> a[i] * Pow2(r)], 0))

BigShr(a, n) ==
    LET q == n \div LimbBits
        r == n % LimbBits
        b == IF q >= Len(a) THEN <<>> ELSE SubSeq(a, q + 1, Len(a))
    IN Trim([i \in 1..Len(b) |->
                (b[i] \div Pow2(r))
                  + (Limb(b, i + 1) % Pow2(r)) * Pow2(LimbBits - r)])

LowBitsZero(a, n) == BigShl(BigShr(a, n), n) = Trim(a)

RECURSIVE DigitFrom(_, _, _, _)
DigitFrom(R, D, j, d) ==
    IF j < 0 THEN d
    ELSE IF BigGE(R, BigMul(<<d + Pow2(j)>>, D))
    THEN DigitFrom(R, D, j - 1, d + Pow2(j))
    ELSE DigitFrom(R, D, j - 1, d)

\* long division, one limb of the quotient at a time: R is the running
\* remainder with the next limb of N brought down, digit the next limb of
\* the quotient
RECURSIVE DivFrom(_, _, _, _, _)
DivDigit(N, D, i, R, q, digit) ==
    DivFrom(N, D, i - 1, BigSub(R, BigMul(<<digit>>, D)), <<digit>> \o q)

DivStep(N, D, i, R, q) == DivDigit(N, D, i, R, q, DigitFrom(R, D, LimbBits - 1, 0))

DivFrom(N, D, i, r, q) ==
    IF i = 0 THEN [q |-> Trim(q), r |-> r]
    ELSE DivStep(N, D, i, Trim(<<N[i]>> \o r), q)

BigDivMod(N, D) == DivFrom(N, D, Len(N), <<>>, <<>>)

\* a Python float is an IEEE 754 binary64: a significand of Precision bits
\* m and an exponent e stand for m * 2^e; every operation rounds its exact
\* result to the nearest float, ties to the even significand
Precision == 53

FloatZero == [m |-> <<>>, e |-> 0]

\* the rounded significand m1 of a value cut by d bits: rounding up may
\* carry into one more bit
RoundCarry(m1, e, d) ==
    IF BitLen(m1) > Precision
    THEN [m |-> BigShr(m1, 1), e |-> e + d + 1]
    ELSE [m |-> m1, e |-> e + d]

\* n has d bits too many and q is n without them: round up when the first
\* bit cut (the guard) is 1 and either a later bit is 1 or q is odd
RoundCut(n, e, sticky, d, q) ==
    RoundCarry(IF /\ Bit(n, d - 1) = 1
                  /\ (sticky \/ ~LowBitsZero(n, d - 1) \/ Bit(q, 0) = 1)
               THEN BigAdd(q, <<1>>) ELSE q,
               e, d)

\* n has L bits
RoundBits(n, e, sticky, L) ==
    IF L <= Precision
    THEN [m |-> BigShl(n, Precision - L), e |-> e - (Precision - L)]
    ELSE RoundCut(n, e, sticky, L - Precision, BigShr(n, L - Precision))

RoundToNearestEven(n, e, sticky) ==
    IF n = <<>> THEN FloatZero ELSE RoundBits(n, e, sticky, BitLen(n))

FloatOfInt(n) == RoundToNearestEven(BigOfInt(n), 0, FALSE)

FloatMul(x, y) ==
    IF x.m = <<>> \/ y.m = <<>> THEN FloatZero
    ELSE RoundToNearestEven(BigMul(x.m, y.m), x.e + y.e, FALSE)

\* the sum of two floats brought to their lower exponent lo
FloatAddAt(x, y, lo) ==
    RoundToNearestEven(BigAdd(BigShl(x.m, x.e - lo), BigShl(y.m, y.e - lo)), lo, FALSE)

FloatAdd(x, y) ==
    IF x.m = <<>> THEN y
    ELSE IF y.m = <<>> THEN x
    ELSE FloatAddAt(x, y, IF x.e <= y.e THEN x.e ELSE y.e)

\* the float of a quotient d.q with remainder d.r
FloatOfQuotient(d, e) == RoundToNearestEven(d.q, e, d.r # <<>>)

FloatDiv(x, y) ==
    IF x.m = <<>> THEN FloatZero
    ELSE FloatOfQuotient(BigDivMod(BigShl(x.m, Precision + 2), y.m),
                         x.e - y.e - (Precision + 2))

FloatGE(x, y) ==
    IF y.m = <<>> THEN TRUE
    ELSE IF x.m = <<>> THEN FALSE
    ELSE IF x.e # y.e THEN x.e > y.e
    ELSE BigGE(x.m, y.m)

FloatGT(x, y) == ~FloatGE(y, x)

FloatEQ(x, y) == x = y

\* 1.0 / (i + 1), kept for the positions met
position_weights ==
    [i \in 1..(MaxResults + 1) |-> FloatDiv(FloatOfInt(1), FloatOfInt(i))]

\* the float written s/10, for s in tenths
floats_of_tenths == [s \in 0..10 |-> FloatDiv(FloatOfInt(s), FloatOfInt(10))]

FloatOfTenths(s) == floats_of_tenths[s]

(***************************************************************************)
(* DisambiguationService                                                   *)
(***************************************************************************)
\* the loop of _calculate_combined_score from the i-th result on:
\* combined_weight = position_weight * result.score is added to
\* weighted_sum, position_weight to total_weight
RECURSIVE CombinedFrom(_, _, _, _)
CombinedStep(ss, i, weighted_sum, total_weight, position_weight) ==
    CombinedFrom(ss, i + 1,
                 FloatAdd(weighted_sum, FloatMul(position_weight, FloatOfTenths(ss[i]))),
                 FloatAdd(total_weight, position_weight))

CombinedFrom(ss, i, weighted_sum, total_weight) ==
    IF i > Len(ss)
    THEN IF total_weight # FloatZero THEN FloatDiv(weighted_sum, total_weight)
         ELSE FloatZero
    ELSE CombinedStep(ss, i, weighted_sum, total_weight, position_weights[i])

\* the combined score of every short list of scores, computed once
ScoreLists ==
    {ss : ss \in UNION {[1..n -> Scores] \cup [1..n -> {0}] :
                           n \in 1..(MaxChunksPerDocument + 2)}}

combined_scores == [ss \in ScoreLists |-> CombinedFrom(ss, 1, FloatZero, FloatZero)]

\* the combined score of any other list of scores, computed when asked for
combined_score_of == [ss \in Seq(0..10) |-> CombinedFrom(ss, 1, FloatZero, FloatZero)]

\* _calculate_combined_score: sum(score_i / (i+1)) / sum(1 / (i+1)), i from 0,
\* in floats
calculate_combined_score(rs) ==
    IF rs = <<>> THEN FloatZero
    ELSE LET ss == [i \in DOMAIN rs |-> rs[i].score]
         IN IF ss \in ScoreLists THEN combined_scores[ss]
            ELSE combined_score_of[ss]

\* a bug: a sort that puts a group ahead of the groups it ties with
RECURSIVE SortByScoreDesc_ties_reversed(_)
SortByScoreDesc_ties_reversed(gs) ==
    IF gs = <<>> THEN <<>>
    ELSE LET front == SortByScoreDesc_ties_reversed(SubSeq(gs, 1, Len(gs) - 1))
             g     == gs[Len(gs)]
             keep  == Cardinality({i \in DOMAIN front :
                          FloatGT(front[i].combined_score, g.combined_score)})
         IN SubSeq(front, 1, keep) \o <<g>> \o SubSeq(front, keep + 1, Len(front))

\* sorted(gs, key = combined_score, reverse = True): a stable sort, so equal
\* scores keep their relative order
RECURSIVE SortByScoreDesc(_)
SortByScoreDesc(gs) ==
    IF gs = <<>> THEN <<>>
    ELSE LET front == SortByScoreDesc(SubSeq(gs, 1, Len(gs) - 1))
             g     == gs[Len(gs)]
             keep  == Cardinality({i \in DOMAIN front :
                          FloatGE(front[i].combined_score, g.combined_score)})
         IN SubSeq(front, 1, keep) \o <<g>> \o SubSeq(front, keep + 1, Len(front))

\* a bug: doc_groups[document_id] = [result] in place of append
group_by_document_overwrite(rs) ==
    LET keys == FirstSeen([i \in DOMAIN rs |-> rs[i].document_id])
        Of(k) == LET all == SelectSeq(rs, LAMBDA r : r.document_id = k)
                 IN <<all[Len(all)]>>
    IN [n \in DOMAIN keys |->
          [entity_id      |-> keys[n],
           entity_type    |-> "document",
           results        |-> Of(keys[n]),
           combined_score |-> calculate_combined_score(Of(keys[n])),
           document_id    |-> keys[n],
           section        |-> "",
           result_count   |-> Len(Of(keys[n]))]]

group_by_document(rs) ==
    LET keys == FirstSeen([i \in DOMAIN rs |-> rs[i].document_id])
        Of(k) == SelectSeq(rs, LAMBDA r : r.document_id = k)
    IN [n \in DOMAIN keys |->
          [entity_id      |-> keys[n],
           entity_type    |-> "document",
           results        |-> Of(keys[n]),
           combined_score |-> calculate_combined_score(Of(keys[n])),
           document_id    |-> keys[n],
           section        |-> "",
           result_count   |-> Len(Of(keys[n]))]]

SectionKey(r) == IF r.section = "" THEN "general" ELSE r.section

group_by_section(rs) ==
    LET keys == FirstSeen([i \in DOMAIN rs |-> SectionKey(rs[i])])
        Of(k) == SelectSeq(rs, LAMBDA r : SectionKey(r) = k)
    IN [n \in DOMAIN keys |->
          [entity_id      |-> Of(keys[n])[1].document_id \o "_" \o keys[n],
           entity_type    |-> "section",
           results        |-> Of(keys[n]),
           combined_score |-> calculate_combined_score(Of(keys[n])),
           document_id    |-> Of(keys[n])[1].document_id,
           section        |-> keys[n],
           result_count   |-> Len(Of(keys[n]))]]

RECURSIVE ConcatSections(_)
ConcatSections(docs) ==
    IF docs = <<>> THEN <<>>
    ELSE ConcatSections(SubSeq(docs, 1, Len(docs) - 1))
           \o group_by_section(docs[Len(docs)].results)

RefinementTrigger == 5
TopDocuments == 3

\* more than 5 document groups: the sections of the first 3, unsorted
refine_first3(document_groups) ==
    IF Len(document_groups) > RefinementTrigger
    THEN ConcatSections(SliceTo(document_groups, TopDocuments))
    ELSE document_groups

\* a bug: the first three document groups taken, unsorted
group_results_by_entity_first3(rs) == refine_first3(group_by_document(rs))

\* more than 5 document groups: the sections of the 3 best documents
refine_by_section(document_groups) ==
    IF Len(document_groups) > RefinementTrigger
    THEN ConcatSections(SliceTo(SortByScoreDesc(document_groups), TopDocuments))
    ELSE document_groups

group_results_by_entity(rs) == refine_by_section(group_by_document(rs))

\* a bug: the group filter left out
FilterGroups_none(gs, min_score_threshold) == gs

FilterGroups(gs, min_score_threshold) ==
    SelectSeq(gs, LAMBDA g : FloatGE(g.combined_score, FloatOfTenths(min_score_threshold)))

\* a bug: the slice bound off by one
LimitGroups_plus1(gs, max_groups) == SliceTo(gs, max_groups + 1)

LimitGroups(gs, max_groups) == SliceTo(gs, max_groups)

\* a bug: options built as soon as one group is left
NeedsOptions_ge1(limited) == Len(limited) >= 1

NeedsOptions(limited) == Len(limited) > 1

create_disambiguation_options(gs) ==
    [n \in DOMAIN gs |->
       [group_id     |-> gs[n].entity_id,
        entity_type  |-> gs[n].entity_type,
        result_count |-> Len(gs[n].results),
        avg_score    |-> gs[n].combined_score]]

\* the answer for the groups made and the groups kept
disambiguation_of(grouped, limited) ==
    [entity_groups |-> grouped,
     groups  |-> limited,
     options |-> IF NeedsOptions(limited)
                 THEN Some(create_disambiguation_options(limited))
                 ELSE None]

\* filter by threshold, sort by combined score, keep max_groups
filter_sort_limit(grouped, max_groups, min_score_threshold) ==
    disambiguation_of(grouped,
        LimitGroups(SortByScoreDesc(FilterGroups(grouped, min_score_threshold)),
                    max_groups))

disambiguate_results(rs, max_groups, min_score_threshold) ==
    IF rs = <<>> THEN [entity_groups |-> <<>>, groups |-> <<>>, options |-> None]
    ELSE filter_sort_limit(group_results_by_entity(rs), max_groups, min_score_threshold)

(***************************************************************************)
(* ContextBuilder                                                          *)
(***************************************************************************)
\* _get_max_tokens_for_model("gpt-3.5-turbo"), the constructor's default
max_context_tokens == 4096

MaxTokensArgs == {None, Some(0), Some(100), Some(3100), Some(4000)}

RECURSIVE SumTokens(_)
SumTokens(cs) ==
    IF cs = <<>> THEN 0
    ELSE SumTokens(SubSeq(cs, 1, Len(cs) - 1)) + cs[Len(cs)].token_count

\* a bug: the scan stops at the first chunk that does not fit
RECURSIVE PackStopAtFirst(_, _, _)
PackStopAtFirst(cs, max_tokens, acc) ==
    IF cs = <<>> THEN acc
    ELSE IF acc.current_tokens + cs[1].token_count <= max_tokens
         THEN PackStopAtFirst(Tail(cs), max_tokens,
                  [final_chunks   |-> Append(acc.final_chunks, cs[1]),
                   current_tokens |-> acc.current_tokens + cs[1].token_count,
                   dropped_count  |-> acc.dropped_count])
         ELSE [acc EXCEPT !.dropped_count = Len(cs)]

\* the loop of _apply_token_limit, one chunk per step
RECURSIVE Pack(_, _, _)
Pack(cs, max_tokens, acc) ==
    IF cs = <<>> THEN acc
    ELSE IF acc.current_tokens + cs[1].token_count <= max_tokens
         THEN Pack(Tail(cs), max_tokens,
                  [final_chunks   |-> Append(acc.final_chunks, cs[1]),
                   current_tokens |-> acc.current_tokens + cs[1].token_count,
                   dropped_count  |-> acc.dropped_count])
         ELSE Pack(Tail(cs), max_tokens,
                  [acc EXCEPT !.dropped_count = acc.dropped_count + 1])

EmptyPack == [final_chunks |-> <<>>, current_tokens |-> 0, dropped_count |-> 0]

\* a bug: dropped_count is never incremented
apply_token_limit_uncounted(chunks, max_tokens) ==
    IF chunks = <<>> \/ SumTokens(chunks) <= max_tokens
    THEN [final_chunks |-> chunks, truncated |-> FALSE, dropped_count |-> 0]
    ELSE [final_chunks  |-> Pack(chunks, max_tokens, EmptyPack).final_chunks,
          truncated     |-> TRUE,
          dropped_count |-> 0]

\* a bug: the scan stops at the first rejection
apply_token_limit_stop(chunks, max_tokens) ==
    IF chunks = <<>> \/ SumTokens(chunks) <= max_tokens
    THEN [final_chunks |-> chunks, truncated |-> FALSE, dropped_count |-> 0]
    ELSE LET packed == PackStopAtFirst(chunks, max_tokens, EmptyPack)
         IN [final_chunks  |-> packed.final_chunks,
             truncated     |-> TRUE,
             dropped_count |-> packed.dropped_count]

apply_token_limit(chunks, max_tokens) ==
    IF chunks = <<>> THEN [final_chunks |-> chunks, truncated |-> FALSE, dropped_count |-> 0]
    ELSE IF SumTokens(chunks) <= max_tokens
    THEN [final_chunks |-> chunks, truncated |-> FALSE, dropped_count |-> 0]
    ELSE LET packed == Pack(chunks, max_tokens, EmptyPack)
         IN [final_chunks  |-> packed.final_chunks,
             truncated     |-> TRUE,
             dropped_count |-> packed.dropped_count]

\* chunk.source with no document_title: "Document " + document_id[:8]
SourceOf(r) == "Document " \o r.document_id

ContextChunkOf(r) ==
    [chunk_id        |-> r.chunk_id,
     document_id     |-> r.document_id,
     source          |-> SourceOf(r),
     section         |-> r.section,
     relevance_score |-> r.score,
     token_count     |-> r.token_count]

\* max_tokens or self.max_context_tokens: None and 0 are both falsy
OrDefault(max_tokens) ==
    IF max_tokens = None \/ max_tokens[1] = 0 THEN max_context_tokens ELSE max_tokens[1]

\* include_sources = True, include_sections = True, include_relevance = False
build_context_from_results(rs, max_tokens) ==
    IF rs = <<>>
    THEN [chunks |-> <<>>, total_tokens |-> 0, sources |-> {}, sections |-> {},
          metadata |-> None, truncated |-> FALSE, dropped_results |-> 0]
    ELSE LET budget == OrDefault(max_tokens)
             context_chunks == [i \in DOMAIN rs |-> ContextChunkOf(rs[i])]
             limited == apply_token_limit(context_chunks, budget)
         IN [chunks          |-> limited.final_chunks,
             total_tokens    |-> SumTokens(limited.final_chunks),
             sources         |-> {context_chunks[i].source : i \in DOMAIN rs},
             sections        |-> {context_chunks[i].section : i \in DOMAIN rs} \ {""},
             metadata        |-> Some([max_tokens |-> budget,
                                       original_result_count |-> Len(rs),
                                       included_result_count |-> Len(limited.final_chunks)]),
             truncated       |-> limited.truncated,
             dropped_results |-> limited.dropped_count]

\* a bug: the results are offered in their stored order
SortResultsByScoreDesc_stored_order(rs) == rs

\* sorted(results, key = score, reverse = True): stable
RECURSIVE SortResultsByScoreDesc(_)
SortResultsByScoreDesc(rs) ==
    IF rs = <<>> THEN <<>>
    ELSE LET front == SortResultsByScoreDesc(SubSeq(rs, 1, Len(rs) - 1))
             r     == rs[Len(rs)]
             keep  == Cardinality({i \in DOMAIN front : front[i].score >= r.score})
         IN SubSeq(front, 1, keep) \o <<r>> \o SubSeq(front, keep + 1, Len(front))

build_context_from_entity_group(entity_group, max_tokens) ==
    build_context_from_results(SortResultsByScoreDesc(entity_group.results), max_tokens)

(***************************************************************************)
(* State machine of the disambiguation engine                              *)
(***************************************************************************)
\* Document ids are named in order of first appearance: the code compares
\* them for equality only, so every input is a renaming of one of these.
\* A chunk belongs to a document not seen before or to the first document,
\* which is the one that can hold several chunks.
ChunksOf(rs, doc) == Cardinality({i \in DOMAIN rs : rs[i].document_id = doc})

DocChoices(rs) ==
    LET used == {rs[i].document_id : i \in DOMAIN rs}
    IN {d \in used \cap {DocumentIds[1]} : ChunksOf(rs, d) < MaxChunksPerDocument}
       \cup (IF Cardinality(used) < Len(DocumentIds)
             THEN {DocumentIds[Cardinality(used) + 1]} ELSE {})

\* The list is in the index's order, similarity descending (search never
\* re-sorts it): a new result scores no higher than the one before it.
ScoreChoices(rs) ==
    IF rs = <<>> THEN Scores ELSE {sc \in Scores : sc <= rs[Len(rs)].score}

\* Only chunks of the first-seen document carry a section.
SectionChoices(doc) == IF doc = DocumentIds[1] THEN Sections ELSE {""}

InitDisamb ==
    /\ pc = "input"
    /\ results = <<>>
    /\ args = None
    /\ entity_groups = <<>>
    /\ groups = <<>>
    /\ options = None
    /\ window = None
    /\ request = None
    /\ calls = <<>>
    /\ query_response = None
    /\ vector_results = None
    /\ search_response = None
    /\ response = None
    /\ outcome = "pending"
    /\ faulted = "none"
    /\ query_in = <<>>
    /\ query_out = None
    /\ scored = None
    /\ confidence = None
    /\ runs = <<>>
    /\ first_text = <<>>
    /\ sample_text = None
    /\ selection = None
    /\ http_response = None
    /\ episodes = <<>>
    /\ pending = <<>>
    /\ feed_call = None
    /\ episode = None
    /\ task = [pc |-> "idle", segments |-> 0, chunks |-> 0, embeddings |-> 0,
               faults |-> {}, raised |-> None]
    /\ option_list = <<>>
    /\ options_given = <<>>
    /\ contexts = <<>>
    /\ document = None
    /\ task_queue = <<>>
    /\ running = None
    /\ admitted = <<>>
    /\ api_answer = None
    /\ last_run = None
    /\ accepted = 0
    /\ transcript_segments = <<>>
    /\ chunker = [pc |-> "input", max_chunk_size |-> 1, overlap |-> 0, chunk_by |-> "tokens",
               text |-> <<>>, start |-> 0, chunks |-> <<>>, returned |-> <<>>]

AddResult(doc, sec, sc, tok) ==
    /\ pc = "input"
    /\ Len(results) < MaxResults
    /\ results' = Append(results,
          [chunk_id |-> Len(results) + 1, document_id |-> doc,
           section |-> sec, score |-> sc, token_count |-> tok])
    /\ UNCHANGED <<pc, args, entity_groups, groups, options, window, queryVars, auxVars>>

Disambiguate(max_groups, min_score_threshold) ==
    /\ pc = "input"
    /\ LET out == disambiguate_results(results, max_groups, min_score_threshold)
       IN /\ entity_groups' = out.entity_groups
          /\ groups' = out.groups
          /\ options' = out.options
    /\ args' = Some([max_groups |-> max_groups,
                     min_score_threshold |-> min_score_threshold])
    /\ pc' = "disambiguated"
    /\ UNCHANGED <<results, window, queryVars, auxVars>>

NextDisamb ==
    \/ \E doc \in DocChoices(results), sc \in ScoreChoices(results) :
          \E sec \in SectionChoices(doc) : AddResult(doc, sec, sc, 100)
    \/ \E mg \in MaxGroupsArgs, thr \in Thresholds : Disambiguate(mg, thr)

SpecDisamb == InitDisamb /\ [][NextDisamb]_vars

(***************************************************************************)
(* Properties of the disambiguation engine                                 *)
(***************************************************************************)
Disambiguated == pc = "disambiguated"
MaxGroupsArg == args[1].max_groups
ThresholdArg == args[1].min_score_threshold

DocsOf(rs) == {rs[i].document_id : i \in DOMAIN rs}

\* number of places (group, index) at which result r is held by gs
Occurrences(gs, r) ==
    Cardinality({p \in (DOMAIN gs) \X (1..Len(results)) :
                    /\ p[2] \in DOMAIN gs[p[1]].results
                    /\ gs[p[1]].results[p[2]] = r})

OnlyInputResults(gs, rs) ==
    \A n \in DOMAIN gs : \A j \in DOMAIN gs[n].results :
        \E i \in DOMAIN rs : rs[i] = gs[n].results[j]

IsPartition(gs, rs) ==
    /\ OnlyInputResults(gs, rs)
    /\ \A i \in DOMAIN rs : Occurrences(gs, rs[i]) = 1

\* position-weighted mean score of the results of document d, in input order
DocumentScore(rs, d) ==
    calculate_combined_score(SelectSeq(rs, LAMBDA r : r.document_id = d))

Clears(g, thr) == FloatGE(g.combined_score, FloatOfTenths(thr))

ClearingCount(gs, thr) == Cardinality({n \in DOMAIN gs : Clears(gs[n], thr)})

Descending(gs) ==
    \A n, m \in DOMAIN gs :
        n < m => FloatGE(gs[n].combined_score, gs[m].combined_score)

OptionsMatch(opts, gs) ==
    /\ Len(opts) = Len(gs)
    /\ \A n \in DOMAIN gs :
          /\ opts[n].group_id = gs[n].entity_id
          /\ FloatEQ(opts[n].avg_score, gs[n].combined_score)
          /\ opts[n].avg_score = gs[n].combined_score

\* C1 (as claimed): whatever the number of distinct document ids, the groups
\* of the grouping step partition the input: every input result is in exactly
\* one group, exactly once, and the groups hold nothing else.
C1_PartitionForAnyInput ==
    Disambiguated => IsPartition(entity_groups, results)

\* C1 (amended): the groups of the grouping step never overlap, never repeat
\* a result and hold input results only; with at most 5 distinct document ids
\* they partition the whole input; with more than 5 they partition exactly
\* the results of three documents, none of which has a lower combined score
\* than a document that was left out.
C1_PartitionUpToRefinement ==
    Disambiguated =>
        LET covered == {d \in DocsOf(results) :
                          \E i \in DOMAIN results :
                              /\ results[i].document_id = d
                              /\ Occurrences(entity_groups, results[i]) > 0}
        IN /\ OnlyInputResults(entity_groups, results)
           /\ \A i \in DOMAIN results : Occurrences(entity_groups, results[i]) <= 1
           /\ Cardinality(DocsOf(results)) <= RefinementTrigger
                 => IsPartition(entity_groups, results)
           /\ Cardinality(DocsOf(results)) > RefinementTrigger
                 => /\ Cardinality(covered) = TopDocuments
                    /\ \A i \in DOMAIN results :
                          Occurrences(entity_groups, results[i]) = 1
                              <=> results[i].document_id \in covered
                    /\ \A c \in covered, u \in DocsOf(results) \ covered :
                          FloatGE(DocumentScore(results, c), DocumentScore(results, u))

\* C1 witness: refinement took place, and one of the three documents kept
\* has chunks in two different sections.
C1_Witness ==
    /\ Disambiguated
    /\ Cardinality(DocsOf(results)) > RefinementTrigger
    /\ \E n, m \in DOMAIN entity_groups :
          /\ n # m
          /\ entity_groups[n].document_id = entity_groups[m].document_id

\* C5: every returned group has combined_score >= min_score_threshold.
C5_ThresholdInvariant ==
    Disambiguated => \A n \in DOMAIN groups : Clears(groups[n], ThresholdArg)

\* C5 witness: groups are returned although the grouping step also produced
\* a group below the threshold, made of results some of which are above it.
C5_Witness ==
    /\ Disambiguated
    /\ groups # <<>>
    /\ \E n \in DOMAIN entity_groups :
          /\ ~Clears(entity_groups[n], ThresholdArg)
          /\ \E j \in DOMAIN entity_groups[n].results :
                entity_groups[n].results[j].score >= ThresholdArg

\* C6: three outcomes.  ([], None) for an empty input or when no group
\* clears the threshold; one group and no options when one group is left
\* after filtering, sorting and limiting; otherwise the groups left and one
\* option per group, in the same order, with group_id = entity_id and
\* avg_score = combined_score.  options is None iff fewer than two groups
\* are returned.
C6_ThreeOutcomes ==
    Disambiguated =>
        LET left == Min(MaxGroupsArg, ClearingCount(entity_groups, ThresholdArg))
        IN /\ (results = <<>> \/ ClearingCount(entity_groups, ThresholdArg) = 0)
                 => (groups = <<>> /\ options = None)
           /\ Len(groups) = left
           /\ left = 1 => options = None
           /\ left > 1 => (options # None /\ OptionsMatch(options[1], groups))
           /\ options = None <=> Len(groups) < 2

\* C6 witness: the multi-candidate outcome, reached by limiting.
C6_Witness ==
    /\ Disambiguated
    /\ options # None
    /\ Len(groups) >= 2
    /\ ClearingCount(entity_groups, ThresholdArg) > Len(groups)

SixDocumentsAboveThreshold ==
    /\ Len(results) = 6
    /\ Cardinality(DocsOf(results)) = 6
    /\ \A i \in DOMAIN results : results[i].score >= ThresholdArg
    /\ MaxGroupsArg = 5

LimitRespected ==
    /\ Len(groups) <= MaxGroupsArg
    /\ ClearingCount(entity_groups, ThresholdArg) > MaxGroupsArg
          => Len(groups) = MaxGroupsArg

\* C7 (as claimed): never more than max_groups groups, exactly max_groups
\* when more clear the threshold; six results of six distinct documents, all
\* above the threshold, with max_groups = 5 give 5 groups and 5 options in
\* descending combined-score order.
C7_ScenarioCFiveGroups ==
    Disambiguated =>
        /\ LimitRespected
        /\ SixDocumentsAboveThreshold
              => /\ Len(groups) = 5
                 /\ options # None
                 /\ Len(options[1]) = 5
                 /\ Descending(groups)

\* C7 (amended): never more than max_groups groups, exactly max_groups when
\* more groups of the grouping step clear the threshold; six results of six
\* distinct documents, all above the threshold, with max_groups = 5 give 3
\* groups (the section groups of the three top documents) and 3 options in
\* descending combined-score order.
C7_ScenarioCThreeGroups ==
    Disambiguated =>
        /\ LimitRespected
        /\ SixDocumentsAboveThreshold
              => /\ Len(groups) = 3
                 /\ \A n \in DOMAIN groups : groups[n].entity_type = "section"
                 /\ options # None
                 /\ OptionsMatch(options[1], groups)
                 /\ Descending(groups)

\* C7 witness: scenario C has been run.
C7_Witness == Disambiguated /\ SixDocumentsAboveThreshold

\* the limit cuts a list of clearing groups and options are still produced
C7_LimitBites ==
    /\ Disambiguated
    /\ ClearingCount(entity_groups, ThresholdArg) > MaxGroupsArg
    /\ MaxGroupsArg >= 2

\* the results of document d filed under section key k, in input order
SectionResults(rs, d, k) ==
    SelectSeq(rs, LAMBDA r : /\ r.document_id = d
                             /\ (IF r.section = "" THEN "general" ELSE r.section) = k)

\* the documents that have results in the groups gs
Represented(gs) ==
    {d \in DocsOf(results) :
        \E n \in DOMAIN gs : \E j \in DOMAIN gs[n].results :
            gs[n].results[j].document_id = d}

\* C20: with more than 5 distinct documents the grouping step returns only
\* 'section' groups, one for each section (missing section: 'general') of
\* exactly 3 documents, none of which scores lower than a document left out,
\* each with entity_id = document_id + '_' + section and holding that
\* section's results; results of the other documents are in no group.  With
\* 5 documents or fewer every group is a 'document' group whose entity_id is
\* its document_id.
C20_SectionRefinement ==
    Disambiguated =>
        LET gs   == entity_groups
            kept == Represented(gs)
        IN IF Cardinality(DocsOf(results)) > 5
           THEN /\ \A n \in DOMAIN gs :
                      /\ gs[n].entity_type = "section"
                      /\ gs[n].results # <<>>
                      /\ gs[n].entity_id =
                            gs[n].results[1].document_id \o "_" \o gs[n].section
                      /\ gs[n].results =
                            SectionResults(results, gs[n].results[1].document_id,
                                           gs[n].section)
                      /\ \A m \in DOMAIN gs :
                            gs[m].entity_id = gs[n].entity_id => m = n
                /\ Cardinality(kept) = 3
                /\ \A c \in kept, u \in DocsOf(results) \ kept :
                      FloatGE(DocumentScore(results, c), DocumentScore(results, u))
                /\ \A i \in DOMAIN results :
                      Occurrences(gs, results[i]) =
                         (IF results[i].document_id \in kept THEN 1 ELSE 0)
           ELSE \A n \in DOMAIN gs :
                   /\ gs[n].entity_type = "document"
                   /\ gs[n].results # <<>>
                   /\ \A j \in DOMAIN gs[n].results :
                         gs[n].results[j].document_id = gs[n].entity_id

\* C20 witness: seven results of six documents; the first-seen document has
\* chunks with and without a section and is not among the three kept.
C20_Witness ==
    /\ Disambiguated
    /\ Cardinality(DocsOf(results)) = 6
    /\ Len(entity_groups) = 3
    /\ results[1].document_id \notin Represented(entity_groups)
    /\ \A n \in DOMAIN entity_groups :
          entity_groups[n].entity_id =
             entity_groups[n].results[1].document_id \o "_general"

\* refinement split a kept document into a 'general' and an 'intro' group
C20_TwoSections ==
    /\ Disambiguated
    /\ Cardinality(DocsOf(results)) > 5
    /\ \E n, m \in DOMAIN entity_groups :
          /\ entity_groups[n].entity_id = "d1_general"
          /\ entity_groups[m].entity_id = "d1_intro"

\* five documents: the groups are the five 'document' groups
C20_FiveDocuments ==
    /\ Disambiguated
    /\ Cardinality(DocsOf(results)) = 5
    /\ Len(entity_groups) = 5
    /\ \A n \in DOMAIN entity_groups : entity_groups[n].entity_type = "document"

\* where the grouping step put group g
ProducedAt(g) == CHOOSE n \in DOMAIN entity_groups : entity_groups[n] = g

\* where document d is first seen in the input
FirstSeenAt(d) ==
    CHOOSE i \in DOMAIN results :
        /\ results[i].document_id = d
        /\ \A j \in 1..(i - 1) : results[j].document_id # d

\* where the key of group g is first seen in the input: a group's first
\* result is the first result with its key
KeyFirstSeenAt(g) == g.results[1].chunk_id

\* C21 as stated: the groups returned by disambiguate_results are in
\* non-increasing combined_score order, and two returned groups with equal
\* combined_score are in the first-seen order of their keys in the input.
C21_FirstSeenOrder ==
    Disambiguated =>
        \A n, m \in DOMAIN groups :
            n < m =>
               /\ FloatGE(groups[n].combined_score, groups[m].combined_score)
               /\ groups[n].combined_score = groups[m].combined_score
                     => KeyFirstSeenAt(groups[n]) < KeyFirstSeenAt(groups[m])

\* C21: the groups returned by disambiguate_results are in non-increasing
\* combined_score order, and two returned groups with equal combined_score
\* are in the order in which the grouping step produced them, which is the
\* first-seen order of their keys when there are at most 5 documents; in
\* the refinement step a document kept scores higher than a document left
\* out, or scores the same and is seen first.
C21_RankingOrder ==
    Disambiguated =>
        /\ Cardinality(DocsOf(results)) <= 5 =>
              \A n, m \in DOMAIN groups :
                  (n < m /\ groups[n].combined_score = groups[m].combined_score)
                     => KeyFirstSeenAt(groups[n]) < KeyFirstSeenAt(groups[m])
        /\ \A n, m \in DOMAIN groups :
              n < m =>
                 /\ FloatGE(groups[n].combined_score, groups[m].combined_score)
                 /\ groups[n].combined_score = groups[m].combined_score
                       => ProducedAt(groups[n]) < ProducedAt(groups[m])
        /\ Cardinality(DocsOf(results)) > 5 =>
              \A c \in Represented(entity_groups),
                 u \in DocsOf(results) \ Represented(entity_groups) :
                  \/ FloatGT(DocumentScore(results, c), DocumentScore(results, u))
                  \/ /\ DocumentScore(results, c) = DocumentScore(results, u)
                     /\ FirstSeenAt(c) < FirstSeenAt(u)

\* C21 witness: refinement left out a document that ties with one it kept,
\* and two of the groups returned tie.
C21_Witness ==
    /\ Disambiguated
    /\ Cardinality(DocsOf(results)) > 5
    /\ \E c \in Represented(entity_groups),
          u \in DocsOf(results) \ Represented(entity_groups) :
           DocumentScore(results, c) = DocumentScore(results, u)
    /\ \E n, m \in DOMAIN groups :
          /\ n < m
          /\ groups[n].combined_score = groups[m].combined_score

ScoresOf(g) == {g.results[j].score : j \in DOMAIN g.results}

SmallestScore(g) == CHOOSE s \in ScoresOf(g) : \A t \in ScoresOf(g) : s <= t

LargestScore(g) == CHOOSE s \in ScoresOf(g) : \A t \in ScoresOf(g) : s >= t

\* C22: the combined score of a group lies between the smallest and the
\* largest result score of the group; a one-result group has that result's
\* score; a group whose results all have the same score s has combined
\* score s whatever its size.
C22_WeightedMean ==
    Disambiguated =>
        \A n \in DOMAIN entity_groups :
            LET g == entity_groups[n]
            IN /\ FloatGE(g.combined_score, FloatOfTenths(SmallestScore(g)))
               /\ FloatGE(FloatOfTenths(LargestScore(g)), g.combined_score)
               /\ SmallestScore(g) = LargestScore(g)
                     => g.combined_score = FloatOfTenths(LargestScore(g))

\* a one-result group has that result's score
C22_OneResult ==
    Disambiguated =>
        \A n \in DOMAIN entity_groups :
            Len(entity_groups[n].results) = 1
               => entity_groups[n].combined_score
                     = FloatOfTenths(entity_groups[n].results[1].score)

\* a group of two results of 0.8 each scores above 0.8
C22_AboveLargest ==
    /\ Disambiguated
    /\ \E n \in DOMAIN entity_groups :
          /\ Len(entity_groups[n].results) = 2
          /\ ScoresOf(entity_groups[n]) = {8}
          /\ FloatGT(entity_groups[n].combined_score, FloatOfTenths(8))

(***************************************************************************)
(* State machine of the context assembler                                  *)
(***************************************************************************)
InitContext == InitDisamb

BuildContext(max_tokens) ==
    /\ pc = "input"
    /\ window' = Some(build_context_from_results(results, max_tokens))
    /\ args' = Some([max_tokens |-> max_tokens, from_group |-> FALSE])
    /\ pc' = "context_built"
    /\ UNCHANGED <<results, entity_groups, groups, options, queryVars, auxVars>>

\* build_context_from_entity_group on the document group of the results;
\* sorted() builds a new list, the group keeps its own
BuildContextFromGroup(max_tokens) ==
    /\ pc = "input"
    /\ results # <<>>
    /\ LET entity_group == group_by_document(results)[1]
       IN /\ window' = Some(build_context_from_entity_group(entity_group, max_tokens))
          /\ entity_groups' = <<entity_group>>
    /\ args' = Some([max_tokens |-> max_tokens, from_group |-> TRUE])
    /\ pc' = "context_built"
    /\ UNCHANGED <<results, groups, options, queryVars, auxVars>>

NextContext ==
    \/ \E sc \in Scores, tok \in TokenCounts :
          /\ Len(results) < MaxContextResults
          /\ AddResult(DocumentIds[1], "", sc, tok)
    \/ \E mt \in MaxTokensArgs : BuildContext(mt)
    \/ \E mt \in MaxTokensArgs : BuildContextFromGroup(mt)

SpecContext == InitContext /\ [][NextContext]_vars

(***************************************************************************)
(* Properties of the context assembler                                     *)
(***************************************************************************)
ContextBuilt == pc = "context_built"
MaxTokensArg == args[1].max_tokens
Window == window[1]

\* the list handed to the packing routine, in the order given
Offered ==
    IF args[1].from_group THEN SortResultsByScoreDesc(results) ELSE results

\* the budget the packing routine is given (metadata.max_tokens)
Budget == Window.metadata[1].max_tokens
Demand == SumTokens(results)

ChunkIds(cs) == [i \in DOMAIN cs |-> cs[i].chunk_id]
Admitted == {Window.chunks[i].chunk_id : i \in DOMAIN Window.chunks}

\* tokens of the chunks admitted among the first n offered
RECURSIVE AdmittedTokensBefore(_)
AdmittedTokensBefore(n) ==
    IF n = 0 THEN 0
    ELSE AdmittedTokensBefore(n - 1)
           + (IF Offered[n].chunk_id \in Admitted THEN Offered[n].token_count ELSE 0)

\* C2: every ContextWindow has total_tokens <= max_tokens, for every
\* max_tokens the caller passes (any integer >= 0).
C2_TokenBudget ==
    (ContextBuilt /\ MaxTokensArg # None) => Window.total_tokens <= MaxTokensArg[1]

\* what the code does keep: total_tokens within the budget in force
C2_WithinBudgetInForce ==
    (ContextBuilt /\ results # <<>>) => Window.total_tokens <= Budget

\* C3: for a window built from a non-empty list and the max_tokens the
\* packing routine is given: truncated implies dropped_results + len(chunks)
\* = number of input results; demand <= max_tokens implies not truncated, no
\* drop and every result included; truncated iff demand > max_tokens.
C3_DropAccounting ==
    (ContextBuilt /\ results # <<>>) =>
        /\ Window.truncated
              => Window.dropped_results + Len(Window.chunks) = Len(results)
        /\ Demand <= Budget
              => /\ ~Window.truncated
                 /\ Window.dropped_results = 0
                 /\ ChunkIds(Window.chunks) = ChunkIds(Offered)
        /\ Window.truncated <=> Demand > Budget

\* C3 witness: a truncated window that keeps some chunks and drops others.
C3_Witness ==
    /\ ContextBuilt
    /\ results # <<>>
    /\ Window.truncated
    /\ Window.dropped_results >= 2
    /\ Len(Window.chunks) >= 1

\* C4: when demand exceeds max_tokens each chunk, in the order given, is
\* admitted iff the tokens admitted before it plus its own fit; admitted
\* chunks keep their order; [3000, 3000, 100] with max_tokens = 4000 admits
\* the first and the third, dropped_results = 1, truncated, total 3100.
C4_GreedyPacking ==
    (ContextBuilt /\ results # <<>> /\ Demand > Budget) =>
        /\ \A n \in DOMAIN Offered :
              Offered[n].chunk_id \in Admitted
                  <=> AdmittedTokensBefore(n - 1) + Offered[n].token_count <= Budget
        /\ ChunkIds(Window.chunks)
              = SelectSeq(ChunkIds(Offered), LAMBDA c : c \in Admitted)
        /\ ([i \in DOMAIN Offered |-> Offered[i].token_count] = <<3000, 3000, 100>>
               /\ Budget = 4000)
              => /\ ChunkIds(Window.chunks) = <<Offered[1].chunk_id, Offered[3].chunk_id>>
                 /\ Window.dropped_results = 1
                 /\ Window.truncated
                 /\ Window.total_tokens = 3100

\* C4 witness: scenario D.
C4_Witness ==
    /\ ContextBuilt
    /\ ~args[1].from_group
    /\ [i \in DOMAIN results |-> results[i].token_count] = <<3000, 3000, 100>>
    /\ MaxTokensArg = Some(4000)
    /\ Len(Window.chunks) = 2

\* the stored result that a descending stable sort puts first
BestStored ==
    CHOOSE i \in DOMAIN results :
        /\ \A j \in DOMAIN results : results[i].score >= results[j].score
        /\ \A j \in 1..(i - 1) : results[j].score < results[i].score

\* C23: build_context_from_entity_group offers the group's results to the
\* packing routine in non-increasing score order whatever their stored
\* order, results of equal score in their stored order: all of them are
\* offered, the best stored result is admitted first when it fits, the
\* chunks of the window are in non-increasing relevance_score order (equal
\* scores in stored order) and are all the results when all fit; the
\* group's own results keep their order and content.
C23_GroupContextOrder ==
    (ContextBuilt /\ args[1].from_group) =>
        /\ Window.metadata[1].original_result_count = Len(results)
        /\ results[BestStored].token_count <= Budget
              => /\ Window.chunks # <<>>
                 /\ Window.chunks[1].chunk_id = results[BestStored].chunk_id
        /\ \A n, m \in DOMAIN Window.chunks :
              n < m =>
                 /\ Window.chunks[n].relevance_score >= Window.chunks[m].relevance_score
                 /\ Window.chunks[n].relevance_score = Window.chunks[m].relevance_score
                       => Window.chunks[n].chunk_id < Window.chunks[m].chunk_id
        /\ Demand <= Budget
              => {Window.chunks[n].chunk_id : n \in DOMAIN Window.chunks}
                    = {results[i].chunk_id : i \in DOMAIN results}
        /\ Len(entity_groups) = 1
        /\ entity_groups[1].results = results

\* C23 witness: a group stored in ascending score order with a tie, whose
\* window holds a later result ahead of an earlier one.
C23_Witness ==
    /\ ContextBuilt
    /\ args[1].from_group
    /\ \E i, j, k \in DOMAIN results :
          /\ i < j /\ j < k
          /\ results[i].score < results[j].score
          /\ results[j].score = results[k].score
    /\ \E n, m \in DOMAIN Window.chunks :
          /\ n < m
          /\ Window.chunks[n].chunk_id > Window.chunks[m].chunk_id
    /\ \E n, m \in DOMAIN Window.chunks :
          /\ n < m
          /\ Window.chunks[n].relevance_score = Window.chunks[m].relevance_score

-----------------------------------------------------------------------------
\* QueryEmbeddingService.normalize_query, SemanticSearchService.search and
\* QueryHandlerService.process_query.  A query is a sequence of characters.

Whitespace == {" ", "\t"}

Queries == {<<>>, <<" ", "\t">>, <<"a">>, <<" ", "a", "\t", " ", "b", " ">>}

\* str.strip()
RECURSIVE lstrip(_)
lstrip(q) ==
    IF q # <<>> /\ Head(q) \in Whitespace THEN lstrip(Tail(q)) ELSE q

RECURSIVE rstrip(_)
rstrip(q) ==
    IF q # <<>> /\ q[Len(q)] \in Whitespace
    THEN rstrip(SubSeq(q, 1, Len(q) - 1)) ELSE q

strip(q) == rstrip(lstrip(q))

\* str.split() with no separator: the maximal runs of non-whitespace;
\* cur is the word being read
RECURSIVE SplitFrom(_, _)
SplitFrom(q, cur) ==
    LET word == IF cur = <<>> THEN <<>> ELSE <<cur>>
    IN IF q = <<>> THEN word
       ELSE IF Head(q) \in Whitespace
            THEN word \o SplitFrom(Tail(q), <<>>)
            ELSE SplitFrom(Tail(q), Append(cur, Head(q)))

split(q) == SplitFrom(q, <<>>)

RECURSIVE join_nosep(_, _)
join_nosep(sep, words) ==
    IF words = <<>> THEN <<>> ELSE words[1] \o join_nosep(sep, Tail(words))

\* sep.join(words)
RECURSIVE join(_, _)
join(sep, words) ==
    IF words = <<>> THEN <<>>
    ELSE IF Len(words) = 1 THEN words[1]
    ELSE words[1] \o <<sep>> \o join(sep, Tail(words))

\* raised: ValueError("Query cannot be empty")
normalize_query(query) ==
    LET normalized == join(" ", split(strip(query)))
    IN [raised |-> normalized = <<>>, value |-> normalized]

\* process_query builds its SearchRequest with limit = 10 and calls
\* disambiguate_results with max_groups = 5
ProcessQueryLimit == 10

ProcessQueryMaxGroups == 5

MaxLimit == 2

MaxHits == 4

Limits == 1..MaxLimit

QueryThresholds == {4, 8}

QueryMaxTokens == {Some(100), Some(4000)}

HitDocumentIds == {DocumentIds[1], DocumentIds[2]}

\* the doc_type stored in the payload of a document's chunks
DocTypeOf(document_id) == IF document_id = DocumentIds[1] THEN "article" ELSE "pdf"

\* SearchRequest.filters: absent, a doc_type filter, a document_id filter
Filters ==
    {None,
     Some([doc_type |-> "article"]),
     Some([document_id |-> <<DocumentIds[2], DocumentIds[1]>>])}

\* search: only a document_id filter is read, and of a list only its first
\* element
document_filter_of(filters) ==
    IF filters # None /\ "document_id" \in DOMAIN filters[1]
          /\ Len(filters[1].document_id) > 0
    THEN Some(filters[1].document_id[1])
    ELSE None

MatchingDocumentIds(document_filter) ==
    IF document_filter = None THEN HitDocumentIds
    ELSE HitDocumentIds \cap {document_filter[1]}

\* What VectorStore.search_similar may answer when asked for `limit` hits:
\* no more than `limit` of them, in the order of the index.
\* document_filter, when given, is a must-condition of the index query.
HitLists(limit, document_filter) ==
    UNION {[1..n -> MatchingDocumentIds(document_filter) \X Scores] :
              n \in 0..Min(limit, MaxHits)}

\* every hit is a chunk of the largest size
HitTokenCount == CHOOSE t \in TokenCounts : \A u \in TokenCounts : u <= t

VectorResults(hits) ==
    [i \in DOMAIN hits |->
        [chunk_id    |-> i,
         document_id |-> hits[i][1],
         score       |-> hits[i][2],
         section     |-> "",
         doc_type    |-> DocTypeOf(hits[i][1]),
         token_count |-> HitTokenCount]]

\* A reply of query_points without scores: the points come as the first
\* element of a tuple.
LegacyHitLists(limit, document_filter) ==
    UNION {[1..n -> MatchingDocumentIds(document_filter) \X {None}] :
              n \in 1..Min(limit, MaxHits)}

\* What the index client may hand back for a query asking for `limit` hits:
\* a QueryResponse with points, the tuple format, or an object that is
\* neither (no points attribute, not iterable).
QueryResponses(limit, document_filter) ==
    {[format |-> "points", points |-> hits] :
        hits \in HitLists(limit, document_filter)}
    \cup {[format |-> "legacy", points |-> hits] :
        hits \in LegacyHitLists(limit, document_filter)}
    \cup {[format |-> "unusable", points |-> <<>>]}

\* search_similar's formatting of the reply: the points branch keeps each
\* score, the legacy branch writes score 0.0, anything else is logged and
\* gives the empty list
search_similar(search_result) ==
    IF search_result.format = "points"
    THEN VectorResults(search_result.points)
    ELSE IF search_result.format = "legacy"
    THEN [i \in DOMAIN search_result.points |->
             [VectorResults(search_result.points)[i] EXCEPT !.score = 0]]
    ELSE <<>>

\* _process_search_results: one SearchResult per hit, in the same order
process_search_results(vector_hits) ==
    [i \in DOMAIN vector_hits |->
        [chunk_id      |-> vector_hits[i].chunk_id,
         document_id   |-> vector_hits[i].document_id,
         document_type |-> vector_hits[i].doc_type,
         section       |-> vector_hits[i].section,
         score         |-> vector_hits[i].score,
         token_count   |-> vector_hits[i].token_count]]

FilterByRelevance_strict(search_results, relevance_threshold) ==
    SelectSeq(search_results, LAMBDA r : r.score > relevance_threshold)

\* [result for result in search_results if result.score >= relevance_threshold]
FilterByRelevance(search_results, relevance_threshold) ==
    SelectSeq(search_results, LAMBDA r : r.score >= relevance_threshold)

\* search, after the vector store has answered
build_search_response(search_request, vector_hits) ==
    LET search_results   == process_search_results(vector_hits)
        filtered_results == FilterByRelevance(search_results,
                                              search_request.relevance_threshold)
        final_results    == SliceTo(filtered_results, search_request.limit)
    IN [query               |-> search_request.query,
        results             |-> final_results,
        total_found         |-> Len(final_results),
        relevance_threshold |-> search_request.relevance_threshold,
        filters_applied     |-> search_request.filters]

\* _build_context_text; the chunk's own text is not modelled
RECURSIVE build_context_text(_)
build_context_text(chunks) ==
    IF chunks = <<>> THEN ""
    ELSE LET chunk == chunks[1]
             source_info == "[" \o chunk.source \o "]"
                 \o (IF chunk.section # "" THEN " [" \o chunk.section \o "]" ELSE "")
         IN IF Len(chunks) = 1 THEN source_info \o " "
            ELSE source_info \o " " \o "\n\n" \o build_context_text(Tail(chunks))

\* the response process_query returns when no stage raised
build_response(req, search_results, disambiguation, context_window) ==
    LET needs_disambiguation == disambiguation.options # None
    IN [query                  |-> req.query,
        context                |-> build_context_text(context_window.chunks),
        sources                |-> [i \in DOMAIN search_results |->
                                      [chunk_id    |-> search_results[i].chunk_id,
                                       document_id |-> search_results[i].document_id,
                                       score       |-> search_results[i].score]],
        needs_disambiguation   |-> needs_disambiguation,
        disambiguation_options |-> IF needs_disambiguation
                                   THEN disambiguation.options ELSE None,
        search_results         |-> Some(search_results),
        metadata               |-> [relevance_threshold |-> req.relevance_threshold,
                                    context_truncated   |->
                                        Len(context_window.chunks) < Len(search_results),
                                    dropped_results     |->
                                        Len(search_results) - Len(context_window.chunks),
                                    entity_groups       |-> Len(disambiguation.entity_groups)],
        total_tokens           |-> context_window.total_tokens,
        context_sources_count  |->
            Cardinality({context_window.chunks[i].source :
                            i \in DOMAIN context_window.chunks}),
        kb_results_count       |-> Len(search_results),
        web_results_count      |-> 0]

process_query_except_reraise(query, e) ==
    [outcome |-> "raised", response |-> None]

\* process_query's except Exception: the error response is returned
process_query_except(query, e) ==
    [outcome  |-> "returned",
     response |-> Some([query                  |-> query,
                        context                |-> "",
                        sources                |-> <<>>,
                        needs_disambiguation   |-> FALSE,
                        disambiguation_options |-> None,
                        search_results         |-> None,
                        metadata               |-> [error |-> e],
                        total_tokens           |-> 0,
                        context_sources_count  |-> 0,
                        kb_results_count       |-> 0,
                        web_results_count      |-> 0])]

\* search's except Exception: logged and raised again
search_except(e) == [outcome |-> "raised", response |-> None]

-----------------------------------------------------------------------------
\* One request served by SemanticSearchService.search or by
\* QueryHandlerService.process_query; every await is a step.

Request == request[1]

\* the SearchRequest search works on: its caller's, or the one process_query builds
SearchRequestOf(req) ==
    [query               |-> req.query,
     limit               |-> IF req.op = "process_query"
                             THEN ProcessQueryLimit ELSE req.limit[1],
     relevance_threshold |-> req.relevance_threshold,
     filters             |-> req.filters]

EmbeddingCall(text) == [service |-> "embedding", text |-> text]

IndexCall(limit, score_threshold, document_filter) ==
    [service |-> "index", limit |-> limit, score_threshold |-> score_threshold,
     document_filter |-> document_filter]

stageVars == <<results, args, entity_groups, groups, options, window>>

InitQuery == InitDisamb

\* An exception leaves the stage: search raises it again to its caller, and
\* process_query, when it is the caller, turns it into the error response.
Raise(stage, e) ==
    LET handled == IF Request.op = "process_query"
                   THEN process_query_except(Request.query, e)
                   ELSE search_except(e)
    IN /\ faulted' = stage
       /\ outcome' = handled.outcome
       /\ response' = handled.response
       /\ pc' = "done"

ReceiveSearch(query, limit, relevance_threshold, filters) ==
    /\ pc = "input"
    /\ request' = Some([op |-> "search", query |-> query, limit |-> Some(limit),
                        relevance_threshold |-> relevance_threshold,
                        filters |-> filters,
                        max_context_tokens |-> None])
    /\ pc' = "search"
    /\ UNCHANGED <<stageVars, calls, query_response, vector_results,
                   search_response, response, outcome, faulted,
                   auxVars>>

ReceiveProcessQuery(query, relevance_threshold, max_tokens) ==
    /\ pc = "input"
    /\ request' = Some([op |-> "process_query", query |-> query, limit |-> None,
                        relevance_threshold |-> relevance_threshold,
                        filters |-> None,
                        max_context_tokens |-> max_tokens])
    /\ pc' = "embed_query"
    /\ UNCHANGED <<stageVars, calls, query_response, vector_results,
                   search_response, response, outcome, faulted,
                   auxVars>>

\* process_query, step 1: embed_query(request.query)
EmbedQuery(ok) ==
    /\ pc = "embed_query"
    /\ calls' = Append(calls, EmbeddingCall(Request.query))
    /\ IF ok
       THEN pc' = "search" /\ UNCHANGED <<response, outcome, faulted>>
       ELSE Raise("embedding", "embedding failed")
    /\ UNCHANGED <<stageVars, request, query_response, vector_results, search_response,
                   auxVars>>

\* search: normalize_query, then embed_query(normalized_query)
SearchEmbed(ok) ==
    /\ pc = "search"
    /\ LET normalized_query == normalize_query(SearchRequestOf(Request).query)
       IN IF normalized_query.raised
          THEN /\ ok
               /\ Raise("search", "Query cannot be empty")
               /\ UNCHANGED calls
          ELSE /\ calls' = Append(calls, EmbeddingCall(normalized_query.value))
               /\ IF ok
                  THEN pc' = "search_similar" /\ UNCHANGED <<response, outcome, faulted>>
                  ELSE Raise("search", "embedding failed")
    /\ UNCHANGED <<stageVars, request, query_response, vector_results, search_response,
                   auxVars>>

\* search: search_similar(limit = request.limit * 2), filter, cut, respond
SearchSimilar(search_result, ok) ==
    /\ pc = "search_similar"
    /\ LET search_request  == SearchRequestOf(Request)
           document_filter == document_filter_of(search_request.filters)
       IN /\ calls' = Append(calls, IndexCall(search_request.limit * 2,
                                              search_request.relevance_threshold,
                                              document_filter))
          /\ IF ok
             THEN /\ search_result \in QueryResponses(search_request.limit * 2,
                                                      document_filter)
                  /\ query_response' = Some(search_result)
                  /\ vector_results' = Some(search_similar(search_result))
                  /\ search_response' =
                        Some(build_search_response(search_request,
                                                   search_similar(search_result)))
                  /\ IF Request.op = "search"
                     THEN pc' = "done" /\ outcome' = "returned"
                     ELSE pc' = "assemble" /\ UNCHANGED outcome
                  /\ UNCHANGED <<response, faulted>>
             ELSE /\ search_result = [format |-> "unusable", points |-> <<>>]
                  /\ Raise("search", "index failed")
                  /\ UNCHANGED <<query_response, vector_results, search_response>>
    /\ UNCHANGED <<stageVars, request,
                   auxVars>>

\* process_query, steps 3 and 4 and the response; fault names the stage that
\* raises, if one does
Assemble(fault) ==
    /\ pc = "assemble"
    /\ IF fault = "none"
       THEN LET search_results == search_response[1].results
                disambiguation == disambiguate_results(search_results,
                                      ProcessQueryMaxGroups, Request.relevance_threshold)
                context_window == build_context_from_results(search_results,
                                      Request.max_context_tokens)
            IN /\ results' = search_results
               /\ entity_groups' = disambiguation.entity_groups
               /\ groups' = disambiguation.groups
               /\ options' = disambiguation.options
               /\ window' = Some(context_window)
               /\ response' = Some(build_response(Request, search_results,
                                                  disambiguation, context_window))
               /\ outcome' = "returned"
               /\ pc' = "done"
               /\ UNCHANGED <<args, faulted>>
       ELSE /\ Raise(fault, "stage failed")
            /\ UNCHANGED stageVars
    /\ UNCHANGED <<request, calls, query_response, vector_results, search_response,
                   auxVars>>

AssembleFaults == {"none", "disambiguation", "context", "response"}

NextQuery ==
    \/ \E q \in Queries, limit \in Limits, thr \in QueryThresholds :
          \E filters \in Filters : ReceiveSearch(q, limit, thr, filters)
    \/ \E q \in Queries, thr \in QueryThresholds, mt \in QueryMaxTokens :
          ReceiveProcessQuery(q, thr, mt)
    \/ \E ok \in BOOLEAN : EmbedQuery(ok)
    \/ \E ok \in BOOLEAN : SearchEmbed(ok)
    \/ \E search_result \in QueryResponses(MaxHits, None), ok \in BOOLEAN :
          SearchSimilar(search_result, ok)
    \/ \E fault \in AssembleFaults : Assemble(fault)

SpecQuery == InitQuery /\ [][NextQuery]_vars

-----------------------------------------------------------------------------
\* Properties of the request pipeline.

ServedBy(op) == request # None /\ Request.op = op

IsBlank(query) == \A i \in DOMAIN query : query[i] \in Whitespace

ErrorResponse(r) ==
    /\ r.context = ""
    /\ r.sources = <<>>
    /\ r.needs_disambiguation = FALSE
    /\ r.total_tokens = 0
    /\ r.kb_results_count = 0
    /\ "error" \in DOMAIN r.metadata

\* C8: process_query never raises: whichever stage raises (embedding, search,
\* disambiguation, context assembly, response building), it still returns a
\* response, and that response has context "", no sources,
\* needs_disambiguation false, total_tokens 0, kb_results_count 0 and an
\* 'error' entry in its metadata.
C8_NeverRaises ==
    ServedBy("process_query") =>
        /\ outcome # "raised"
        /\ pc = "done" => (outcome = "returned" /\ response # None)
        /\ faulted # "none" =>
              /\ pc = "done"
              /\ response # None
              /\ ErrorResponse(response[1])

\* C8 witness: the index call inside search failed after both embedding calls
\* went through, and process_query returned the error response.
C8_Witness ==
    /\ ServedBy("process_query")
    /\ faulted = "search"
    /\ Len(calls) = 3
    /\ outcome = "returned"
    /\ ErrorResponse(response[1])

\* C9: for an empty or whitespace-only query neither process_query nor search
\* issues a call to the embedding collaborator or to the vector index.
C9_EmptyQueryNoIO ==
    (request # None /\ IsBlank(Request.query)) => calls = <<>>

\* The search adapter on its own does reject a blank query before any call.
SearchRejectsBlankBeforeIO ==
    (ServedBy("search") /\ IsBlank(Request.query)) =>
        /\ calls = <<>>
        /\ pc = "done" => (outcome = "raised" /\ faulted = "search")

\* The blank query served by process_query has reached the embedding
\* collaborator before search rejects it.
BlankQueryEmbedded ==
    /\ ServedBy("process_query")
    /\ IsBlank(Request.query)
    /\ pc = "done"
    /\ calls = <<EmbeddingCall(Request.query)>>
    /\ response[1].metadata.error = "Query cannot be empty"

Answered == search_response # None

Candidates == vector_results[1]

Returned == search_response[1].results

Passes(i) == Candidates[i].score >= SearchRequestOf(Request).relevance_threshold

PassingUpTo(j) == Cardinality({i \in 1..j : Passes(i)})

\* C10: search asks the index for 2 x limit candidates and returns the
\* candidates with score >= relevance_threshold, in the index's order, cut to
\* the first limit: every returned result clears the threshold, at most limit
\* are returned, and total_found is the number returned.
C10_HardCut ==
    Answered =>
        LET limit == SearchRequestOf(Request).limit
        IN /\ calls[Len(calls)].service = "index"
           /\ calls[Len(calls)].limit = 2 * limit
           /\ Len(Candidates) <= 2 * limit
           /\ Len(Returned) = Min(limit, PassingUpTo(Len(Candidates)))
           /\ \A k \in DOMAIN Returned :
                 \E j \in DOMAIN Candidates :
                    /\ Passes(j)
                    /\ PassingUpTo(j) = k
                    /\ Returned[k] = process_search_results(Candidates)[j]
           /\ \A k \in DOMAIN Returned :
                 Returned[k].score >= SearchRequestOf(Request).relevance_threshold
           /\ Len(Returned) <= limit
           /\ search_response[1].total_found = Len(Returned)

\* C10 witness: four candidates for limit 2, the second below the threshold
\* and three at it; the first and the third are returned.
C10_Witness ==
    /\ ServedBy("search")
    /\ Answered
    /\ Request.limit = Some(2)
    /\ Len(Candidates) = 4
    /\ ~Passes(2)
    /\ PassingUpTo(4) = 3
    /\ [k \in DOMAIN Returned |-> Returned[k].chunk_id] = <<1, 3>>

\* The index's order is kept even when it is not descending by score.
C10_OrderKept ==
    /\ ServedBy("search")
    /\ Answered
    /\ Len(Returned) = 2
    /\ Returned[1].score < Returned[2].score

\* the index client answered, but not with a QueryResponse carrying scores
UnusableReply == query_response # None /\ query_response[1].format # "points"

\* C11: when the embedding call or the index query fails, or the index
\* answers with an unusable response, search fails to its caller; it never
\* returns a SearchResponse with empty-by-default or made-up results instead.
C11_FailurePropagates ==
    (ServedBy("search") /\ pc = "done" /\ (faulted # "none" \/ UnusableReply)) =>
        /\ outcome = "raised"
        /\ search_response = None

\* A call that raises does reach the caller of search, with no response.
RaisedCallPropagates ==
    (ServedBy("search") /\ faulted # "none") =>
        /\ pc = "done"
        /\ outcome = "raised"
        /\ search_response = None
        /\ response = None

\* search returned an empty SearchResponse for a reply it could not read.
UnusableReplyAnswered ==
    /\ ServedBy("search")
    /\ query_response = Some([format |-> "unusable", points |-> <<>>])
    /\ outcome = "returned"
    /\ search_response[1].results = <<>>
    /\ search_response[1].total_found = 0

HasFilter(key) == Request.filters # None /\ key \in DOMAIN Request.filters[1]

\* C12: with a doc_type (source_type, section) filter every result search
\* returns carries the matching metadata value, and with a document_id filter
\* every result belongs to one of the requested documents.
C12_FiltersHonoured ==
    (ServedBy("search") /\ Answered) =>
        /\ HasFilter("doc_type") =>
              \A k \in DOMAIN Returned :
                 Returned[k].document_type = Request.filters[1].doc_type
        /\ HasFilter("document_id") =>
              \A k \in DOMAIN Returned :
                 \E n \in DOMAIN Request.filters[1].document_id :
                    Returned[k].document_id = Request.filters[1].document_id[n]

\* The document_id filter on its own is honoured: its first document is
\* handed to the index as a must-condition and only that document's chunks
\* come back.
DocumentFilterHonoured ==
    (ServedBy("search") /\ Answered /\ HasFilter("document_id")) =>
        /\ calls[Len(calls)].document_filter = Some(Request.filters[1].document_id[1])
        /\ \A k \in DOMAIN Returned :
              Returned[k].document_id = Request.filters[1].document_id[1]

\* A search filtered on doc_type 'article' returned a result of another type,
\* the index having been queried without any filter.
OtherDocTypeReturned ==
    /\ ServedBy("search")
    /\ Answered
    /\ Request.filters = Some([doc_type |-> "article"])
    /\ calls[Len(calls)].document_filter = None
    /\ \E k \in DOMAIN Returned : Returned[k].document_type = "pdf"

\* A search filtered on two documents returned results of the first.
DocumentFilterUsed ==
    /\ ServedBy("search")
    /\ Answered
    /\ HasFilter("document_id")
    /\ Len(Returned) = 2

\* truncated, dropped_results and the lengths of a window built from n results
FlagsAgree(w, n) ==
    /\ w.truncated <=> w.dropped_results > 0
    /\ w.dropped_results > 0 <=> Len(w.chunks) < n
    /\ w.dropped_results = n - Len(w.chunks)

\* C28: for the ContextWindow process_query gets from
\* build_context_from_results, truncated holds iff dropped_results > 0 iff
\* fewer chunks are included than results were given, and the
\* context_truncated and dropped_results that process_query recomputes from
\* the lengths equal the window's truncated and dropped_results.
C28_TruncationFlagsAgree ==
    (ServedBy("process_query") /\ pc = "done" /\ faulted = "none") =>
        /\ FlagsAgree(window[1], Len(results))
        /\ response[1].metadata.context_truncated = window[1].truncated
        /\ response[1].metadata.dropped_results = window[1].dropped_results

\* C28 witness: a completed request whose window dropped one of two results.
C28_Witness ==
    /\ ServedBy("process_query")
    /\ pc = "done"
    /\ faulted = "none"
    /\ Len(results) = 2
    /\ window[1].truncated
    /\ window[1].dropped_results = 1
    /\ response[1].metadata.context_truncated

\* every window of the context assembler has agreeing flags
WindowFlagsAgree ==
    ContextBuilt => FlagsAgree(Window, Len(results))

\* process_query went through every stage and answered
Completed ==
    /\ ServedBy("process_query")
    /\ pc = "done"
    /\ faulted = "none"

CallsTo(service) == SelectSeq(calls, LAMBDA c : c.service = service)

\* C24: within one process_query request the embedding collaborator is
\* called exactly once, on the normalized query, then the vector index
\* exactly once, and no collaborator call is repeated.
C24_SingleAttemptChain ==
    Completed =>
        /\ Len(calls) = 2
        /\ calls[1] = EmbeddingCall(normalize_query(Request.query).value)
        /\ calls[2].service = "index"

\* What the code does: the raw query is embedded, then the normalized one,
\* then the index is asked once; no call is made after a failed one.
C24_ChainOfThree ==
    /\ Len(CallsTo("index")) <= 1
    /\ Len(CallsTo("embedding")) <= 2
    /\ faulted # "none" => Len(calls) <= 3
    /\ Completed =>
          /\ calls[1] = EmbeddingCall(Request.query)
          /\ calls[2] = EmbeddingCall(normalize_query(Request.query).value)
          /\ calls[3].service = "index"
          /\ Len(calls) = 3

\* a completed request whose query was embedded twice, raw and normalized
C24_EmbeddedTwice ==
    /\ Completed
    /\ Len(CallsTo("embedding")) = 2
    /\ calls[1].text # calls[2].text

-----------------------------------------------------------------------------
\* normalize_query on its own: a query is typed character by character and
\* then normalized.

MaxQueryLen == 6

Characters == Whitespace \cup {"a", "B"}

InitNormalize == InitDisamb

TypeCharacter(c) ==
    /\ pc = "input"
    /\ Len(query_in) < MaxQueryLen
    /\ query_in' = Append(query_in, c)
    /\ UNCHANGED <<pc, stageVars, queryVars, query_out, notNorm>>

NormalizeQuery ==
    /\ pc = "input"
    /\ query_out' = Some(normalize_query(query_in))
    /\ pc' = "normalized"
    /\ UNCHANGED <<stageVars, queryVars, query_in, notNorm>>

NextNormalize ==
    \/ \E c \in Characters : TypeCharacter(c)
    \/ NormalizeQuery

SpecNormalize == InitNormalize /\ [][NextNormalize]_vars

Normalized == pc = "normalized"

\* the positions of the non-whitespace characters of a text, ascending
Inked(text) ==
    SelectSeq([i \in 1..Len(text) |-> i], LAMBDA i : text[i] \notin Whitespace)

\* C13: normalize_query fails exactly when nothing but whitespace was given;
\* otherwise its result has no leading or trailing whitespace, holds the
\* non-whitespace characters of the input unchanged and in order, and has
\* exactly one space wherever the input had a run of whitespace between two
\* of them; '  a  B ' becomes 'a B'.
C13_Normalization ==
    Normalized =>
        LET out == query_out[1].value
        IN /\ query_out[1].raised <=> IsBlank(query_in)
           /\ ~query_out[1].raised =>
                 /\ out[1] \notin Whitespace
                 /\ out[Len(out)] \notin Whitespace
                 /\ \A i \in DOMAIN out : out[i] \in Whitespace => out[i] = " "
                 /\ \A i \in 1..(Len(out) - 1) :
                       ~(out[i] \in Whitespace /\ out[i + 1] \in Whitespace)
                 /\ [k \in DOMAIN Inked(out) |-> out[Inked(out)[k]]]
                       = [k \in DOMAIN Inked(query_in) |-> query_in[Inked(query_in)[k]]]
                 /\ \A k \in 1..(Len(Inked(out)) - 1) :
                       (Inked(out)[k + 1] = Inked(out)[k] + 1)
                          <=> (Inked(query_in)[k + 1] = Inked(query_in)[k] + 1)
           /\ query_in = <<" ", "a", " ", "\t", "B", " ">>
                 => out = <<"a", " ", "B">>

\* C13 witness: ' a <space><tab>B ' was normalized to 'a B'.
C13_Witness ==
    /\ Normalized
    /\ query_in = <<" ", "a", " ", "\t", "B", " ">>
    /\ query_out = Some([raised |-> FALSE, value |-> <<"a", " ", "B">>])

\* A whitespace-only text was refused.
C13_BlankRefused ==
    /\ Normalized
    /\ query_in = <<" ", "\t">>
    /\ query_out[1].raised

-----------------------------------------------------------------------------
\* calculate_confidence_score (api/chat.py).  Scores are in tenths and the
\* returned confidence in thousandths; the arithmetic is exact.

MaxScored == 4

ResponseScores == {0, 4, 8, 10}

TotalTokens == {0, 100, 500, 1000, 3000}

RECURSIVE SumScores(_)
SumScores(search_results) ==
    IF search_results = <<>> THEN 0
    ELSE search_results[1].score + SumScores(Tail(search_results))

\* round(num / den) to the nearest integer, a tie going to the even one
RoundHalfEven(num, den) ==
    LET q == num \div den
        r == num % den
    IN IF 2 * r < den THEN q
       ELSE IF 2 * r > den THEN q + 1
       ELSE IF q % 2 = 0 THEN q ELSE q + 1

\* min(total_tokens / 1000, 1.0), in thousandths
context_factor(resp) == Min(resp.total_tokens, 1000)

calculate_confidence_score_swapped(resp) ==
    IF resp.kb_results_count = 0 THEN 0
    ELSE IF resp.search_results = None \/ resp.search_results[1] = <<>>
    THEN Min(RoundHalfEven(7 * context_factor(resp), 10), 1000)
    ELSE LET n == Len(resp.search_results[1])
         IN Min(RoundHalfEven(300 * SumScores(resp.search_results[1])
                                 + 7 * context_factor(resp) * n, 10 * n), 1000)

\* (avg_score * 0.7) + (context_factor * 0.3), capped at 1.0, 3 decimals
calculate_confidence_score(resp) ==
    IF resp.kb_results_count = 0 THEN 0
    ELSE IF resp.search_results = None \/ resp.search_results[1] = <<>>
    THEN Min(RoundHalfEven(3 * context_factor(resp), 10), 1000)
    ELSE LET n == Len(resp.search_results[1])
         IN Min(RoundHalfEven(700 * SumScores(resp.search_results[1])
                                 + 3 * context_factor(resp) * n, 10 * n), 1000)

\* the fields of a QueryHandlerResponse the score is computed from
ScoredResponse(search_results, total_tokens) ==
    [search_results   |-> Some(search_results),
     kb_results_count |-> Len(search_results),
     total_tokens     |-> total_tokens]

InitConfidence == InitDisamb

\* the search results of the response so far
ScoredResults ==
    IF scored = None \/ scored[1].search_results = None
    THEN <<>> ELSE scored[1].search_results[1]

\* one more search result in the response
AddScored(score) ==
    /\ pc = "input"
    /\ Len(ScoredResults) < MaxScored
    /\ scored' = Some(ScoredResponse(Append(ScoredResults, [score |-> score]), 0))
    /\ UNCHANGED <<pc, stageVars, queryVars, confidence, notConf>>

\* the context built for the response holds total_tokens tokens; without
\* results there is no context
CalculateConfidence(total_tokens) ==
    /\ pc = "input"
    /\ ScoredResults = <<>> => total_tokens = 0
    /\ scored' = Some(ScoredResponse(ScoredResults, total_tokens))
    /\ confidence' = Some(calculate_confidence_score(scored'[1]))
    /\ pc' = "scored"
    /\ UNCHANGED <<stageVars, queryVars, notConf>>

\* the error response of process_query is scored
CalculateConfidenceOfError ==
    /\ pc = "input"
    /\ scored = None
    /\ scored' = process_query_except(<<"a">>, "stage failed").response
    /\ confidence' = Some(calculate_confidence_score(scored'[1]))
    /\ pc' = "scored"
    /\ UNCHANGED <<stageVars, queryVars, notConf>>

NextConfidence ==
    \/ \E score \in ResponseScores : AddScored(score)
    \/ \E total_tokens \in TotalTokens : CalculateConfidence(total_tokens)
    \/ CalculateConfidenceOfError

SpecConfidence == InitConfidence /\ [][NextConfidence]_vars

Scored == pc = "scored"

\* C14: the confidence is 0 for a response with zero KB results, the error
\* response included; otherwise it is 0.7 x the average result score +
\* 0.3 x min(total_tokens / 1000, 1) rounded to 3 decimals (here: the
\* thousandth nearest to that value), and it lies in [0, 1] for scores in
\* [0, 1].
C14_ConfidenceScore ==
    Scored =>
        LET n     == Len(ScoredResults)
            exact == 700 * SumScores(ScoredResults)
                        + 3 * Min(scored[1].total_tokens, 1000) * n
            given == confidence[1] * 10 * n
        IN /\ scored[1].kb_results_count = 0 => confidence[1] = 0
           /\ "metadata" \in DOMAIN scored[1] => confidence[1] = 0
           /\ scored[1].kb_results_count > 0 =>
                 /\ 2 * (given - exact) <= 10 * n
                 /\ 2 * (exact - given) <= 10 * n
           /\ (\A i \in DOMAIN ScoredResults :
                  ScoredResults[i].score >= 0 /\ ScoredResults[i].score <= 10)
                 => (confidence[1] >= 0 /\ confidence[1] <= 1000)

\* C14 witness: three results scoring 0.8, 0.8 and 0.4 with 100 tokens of
\* context give 0.467 + 0.03 = 0.497.
C14_Witness ==
    /\ Scored
    /\ [i \in DOMAIN ScoredResults |-> ScoredResults[i].score] = <<8, 8, 4>>
    /\ scored[1].total_tokens = 100
    /\ confidence = Some(497)

\* The error response of process_query scores 0.
C14_ErrorScoresZero ==
    /\ Scored
    /\ "metadata" \in DOMAIN scored[1]
    /\ confidence = Some(0)

-----------------------------------------------------------------------------
\* The pure stages run twice on the same results.  list(set(...)) yields the
\* strings in the order of their hashes, which is fixed within one
\* interpreter process and differs between processes (hash seed).

MaxRunResults == 3

HashSeeds == {"forward", "backward"}

Hashable == <<"intro", "methods", "Document d1", "Document d2">>

RunSections == {"", "intro", "methods"}

\* every result of these runs has the highest score
RunScore == CHOOSE sc \in Scores : \A other \in Scores : other <= sc

Reverse(s) == [i \in DOMAIN s |-> s[Len(s) + 1 - i]]

\* list(set(...)) under a hash seed
ListOfSet(S, seed) ==
    SelectSeq(IF seed = "forward" THEN Hashable ELSE Reverse(Hashable),
              LAMBDA x : x \in S)

\* ContextWindow(sources = list(sources), sections = list(sections), ...)
ContextWindowOf(built, seed) ==
    [chunks          |-> built.chunks,
     total_tokens    |-> built.total_tokens,
     sources         |-> ListOfSet(built.sources, seed),
     sections        |-> ListOfSet(built.sections, seed),
     truncated       |-> built.truncated,
     dropped_results |-> built.dropped_results]

\* metadata["sections"] of a document group:
\* list(set(r.section for r in doc_results if r.section))
metadata_sections(group, seed) ==
    ListOfSet({group.results[i].section : i \in DOMAIN group.results} \ {""}, seed)

\* the description of an option: its wording is fixed by the entity type, the
\* result count and, for a document with sections, the first three of them
option_description(group, seed) ==
    IF group.entity_type = "document"
    THEN [kind         |-> "Document with N relevant sections",
          result_count |-> group.result_count,
          sections     |-> SliceTo(metadata_sections(group, seed), 3)]
    ELSE [kind         |-> "Section S with N relevant parts",
          result_count |-> group.result_count,
          sections     |-> <<group.section>>]

\* what one run of disambiguate_results and build_context_from_results gives
PureStages(rs, max_groups, min_score_threshold, max_tokens, seed) ==
    LET disambiguation == disambiguate_results(rs, max_groups, min_score_threshold)
        built          == build_context_from_results(rs, max_tokens)
    IN [window       |-> ContextWindowOf(built, seed),
        groups       |-> disambiguation.groups,
        options      |-> IF disambiguation.options = None THEN None
                         ELSE Some(disambiguation.options[1]),
        descriptions |-> [n \in DOMAIN disambiguation.groups |->
                             option_description(disambiguation.groups[n], seed)],
        needs_disambiguation |-> disambiguation.options # None]

InitRuns == InitDisamb

\* a run of both stages, in a process whose hash seed is `seed`; a second
\* run is given the arguments of the first
RunPureStages(min_score_threshold, max_tokens, seed) ==
    /\ pc \in {"input", "ran"}
    /\ results # <<>>
    /\ Len(runs) < 2
    /\ args' = Some([max_groups |-> ProcessQueryMaxGroups,
                     min_score_threshold |-> min_score_threshold,
                     max_tokens |-> max_tokens])
    /\ runs # <<>> => args' = args
    /\ runs' = Append(runs, PureStages(results, ProcessQueryMaxGroups,
                                       min_score_threshold, max_tokens, seed))
    /\ pc' = "ran"
    /\ UNCHANGED <<results, entity_groups, groups, options, window, queryVars,
                   notRun>>

NextRuns ==
    \/ \E doc \in HitDocumentIds, sec \in RunSections :
          /\ Len(results) < MaxRunResults
          /\ AddResult(doc, sec, RunScore, 100)
    \/ \E thr \in Thresholds, max_tokens \in QueryMaxTokens, seed \in HashSeeds :
          RunPureStages(thr, max_tokens, seed)

SpecRuns == InitRuns /\ [][NextRuns]_vars

RanTwice == Len(runs) = 2

\* C15: two runs of build_context_from_results and of disambiguate_results on
\* the same inputs give identical output: chunks and their order,
\* total_tokens, truncated, dropped_results, sources, sections, groups and
\* their order, option fields with descriptions, and the decision.
C15_Deterministic == RanTwice => runs[1] = runs[2]

\* What does not pass through a set is the same in both runs.
SameUpToSetOrder ==
    RanTwice =>
        /\ runs[1].window.chunks = runs[2].window.chunks
        /\ runs[1].window.total_tokens = runs[2].window.total_tokens
        /\ runs[1].window.truncated = runs[2].window.truncated
        /\ runs[1].window.dropped_results = runs[2].window.dropped_results
        /\ runs[1].groups = runs[2].groups
        /\ runs[1].options = runs[2].options
        /\ runs[1].needs_disambiguation = runs[2].needs_disambiguation
        /\ {runs[1].window.sources[i] : i \in DOMAIN runs[1].window.sources}
              = {runs[2].window.sources[i] : i \in DOMAIN runs[2].window.sources}

\* Two runs on the same results whose option descriptions differ.
DescriptionsDiffer ==
    /\ RanTwice
    /\ runs[1].needs_disambiguation
    /\ runs[1].descriptions # runs[2].descriptions

\* Two runs on the same results whose lists of sources differ.
SourcesDiffer ==
    /\ RanTwice
    /\ runs[1].window.sources # runs[2].window.sources

-----------------------------------------------------------------------------
\* sample_text of a DisambiguationOption.  A text is a sequence of character
\* codes.

MaxTextLen == 500

SampleLength == 200

Ellipsis == <<46, 46, 46>>

\* the character a text holds at position i
CharacterAt(i) == 97 + (i % 26)

\* group.results[0].text[:200] + "..." if group.results else ""
sample_text_of(group_texts) ==
    IF group_texts = <<>> THEN <<>>
    ELSE SliceTo(group_texts[1], SampleLength) \o Ellipsis

InitSample == InitDisamb

\* the text grows by n characters
ExtendText(n) ==
    /\ pc = "input"
    /\ Len(first_text) + n <= MaxTextLen
    /\ first_text' = [i \in 1..(Len(first_text) + n) |-> CharacterAt(i)]
    /\ UNCHANGED <<pc, stageVars, queryVars, sample_text, notSample>>

\* the option of a group whose first result has this text is created
CreateOption ==
    /\ pc = "input"
    /\ sample_text' = Some(sample_text_of(<<first_text>>))
    /\ pc' = "sampled"
    /\ UNCHANGED <<stageVars, queryVars, first_text, notSample>>

NextSample ==
    \/ \E n \in {1, 100} : ExtendText(n)
    \/ CreateOption

SpecSample == InitSample /\ [][NextSample]_vars

Sampled == pc = "sampled"

\* C16: sample_text is the first 200 characters of the text with '...'
\* appended when the text is longer than 200 characters (500 characters give
\* a sample of length 203); a text of at most 200 characters is the sample,
\* unchanged and without the suffix.
C16_SampleText ==
    Sampled =>
        /\ Len(first_text) > 200 => sample_text[1] = 
              SubSeq(first_text, 1, 200) \o Ellipsis
        /\ Len(first_text) = 500 => Len(sample_text[1]) = 203
        /\ Len(first_text) <= 200 => sample_text[1] = first_text

\* For a text longer than 200 characters the sample is as described.
LongTextSample ==
    Sampled =>
        /\ Len(first_text) > 200 => sample_text[1] = 
              SubSeq(first_text, 1, 200) \o Ellipsis
        /\ Len(first_text) = 500 => Len(sample_text[1]) = 203

\* A text of five characters got a sample of eight, ending in '...'.
ShortTextSuffixed ==
    /\ Sampled
    /\ Len(first_text) = 5
    /\ sample_text[1] = first_text \o Ellipsis

\* A text of 500 characters got a sample of 203.
LongTextSampled ==
    /\ Sampled
    /\ Len(first_text) = 500
    /\ Len(sample_text[1]) = 203

-----------------------------------------------------------------------------
\* select_entity_group and the context-selection endpoint
\* (POST /api/search/context, api/search.py build_context).  `results` is
\* what the index holds.  A group id is a document id, or a document id and a
\* section joined by "_".

MaxIndexed == 3

DefaultMaxGroups == 5

DefaultMinScoreThreshold == 5

BuildContextLimit == 100

BuildContextThreshold == 5

GroupIds ==
    {[document_id |-> DocumentIds[1], section |-> None],
     [document_id |-> DocumentIds[2], section |-> None],
     [document_id |-> DocumentIds[1], section |-> Some("intro")],
     [document_id |-> DocumentIds[3], section |-> None]}

\* the group id as the text sent by the client
GroupIdText(group_id) ==
    IF group_id.section = None THEN group_id.document_id
    ELSE group_id.document_id \o "_" \o group_id.section[1]

\* for group in groups: if group.entity_id == selected_group_id: return group
RECURSIVE select_entity_group(_, _)
select_entity_group(entity_groups_given, selected_group_id) ==
    IF entity_groups_given = <<>> THEN None
    ELSE IF entity_groups_given[1].entity_id = selected_group_id
    THEN Some(entity_groups_given[1])
    ELSE select_entity_group(Tail(entity_groups_given), selected_group_id)

\* build_context: search with query "" filtered on the document of the
\* group id, disambiguate with the defaults, select, 404 when nothing is
\* selected, else the group's context; any exception other than the 404 is
\* answered with 500
build_context(index, group_id, max_tokens) ==
    LET normalized_query == normalize_query(<<>>)
    IN IF normalized_query.raised
       THEN [status_code |-> 500, detail |-> "Context building service unavailable"]
       ELSE LET search_results ==
                    SliceTo(SelectSeq(index,
                               LAMBDA r : /\ r.document_id = group_id.document_id
                                          /\ r.score >= BuildContextThreshold),
                            BuildContextLimit)
                found == select_entity_group(
                            disambiguate_results(search_results, DefaultMaxGroups,
                                DefaultMinScoreThreshold).entity_groups,
                            GroupIdText(group_id))
            IN IF found = None
               THEN [status_code |-> 404, detail |-> "Entity group not found"]
               ELSE [status_code |-> 200,
                     context_window |->
                        build_context_from_entity_group(found[1], max_tokens)]

InitSelect == InitDisamb

\* select_entity_group on the groups of the indexed results
SelectEntityGroup(group_id) ==
    /\ pc = "input"
    /\ LET given == disambiguate_results(results, DefaultMaxGroups,
                                         DefaultMinScoreThreshold).entity_groups
       IN selection' = Some([groups            |-> given,
                             selected_group_id |-> GroupIdText(group_id),
                             returned          |-> select_entity_group(
                                                      given, GroupIdText(group_id))])
    /\ pc' = "selected"
    /\ UNCHANGED <<stageVars, queryVars, http_response, notSelect>>

\* POST /api/search/context
BuildContextRequest(group_id, max_tokens) ==
    /\ pc = "input"
    /\ selection' = Some([groups            |-> disambiguate_results(results,
                                                   DefaultMaxGroups,
                                                   DefaultMinScoreThreshold).entity_groups,
                          selected_group_id |-> GroupIdText(group_id),
                          returned          |-> None])
    /\ http_response' = Some(build_context(results, group_id, max_tokens))
    /\ pc' = "answered"
    /\ UNCHANGED <<stageVars, queryVars, notSelect>>

NextSelect ==
    \/ \E doc \in HitDocumentIds, sec \in Sections :
          /\ Len(results) < MaxIndexed
          /\ AddResult(doc, sec, RunScore, 100)
    \/ \E group_id \in GroupIds : SelectEntityGroup(group_id)
    \/ \E group_id \in GroupIds : BuildContextRequest(group_id, Some(4000))

SpecSelect == InitSelect /\ [][NextSelect]_vars

Selected == pc = "selected"

ContextAnswered == pc = "answered"

\* the groups whose entity_id is the requested id
Matching ==
    {n \in DOMAIN selection[1].groups :
        selection[1].groups[n].entity_id = selection[1].selected_group_id}

\* C17: select_entity_group returns a group with the given id when the list
\* has one and None otherwise, never a group with another id; the
\* context-selection operation answers 404 for a group_id matching no group,
\* never 500, and the group's context for a group_id that matches.
C17_EntitySelection ==
    /\ Selected =>
          /\ Matching # {} =>
                /\ selection[1].returned # None
                /\ selection[1].returned[1].entity_id = selection[1].selected_group_id
          /\ Matching = {} => selection[1].returned = None
    /\ ContextAnswered =>
          /\ http_response[1].status_code # 500
          /\ Matching = {} => http_response[1].status_code = 404
          /\ Matching # {} => http_response[1].status_code = 200

\* select_entity_group on its own does what is said of it.
SelectReturnsMatch ==
    Selected =>
        /\ Matching # {} =>
              /\ selection[1].returned # None
              /\ selection[1].returned[1].entity_id = selection[1].selected_group_id
              /\ \E n \in Matching : selection[1].returned[1] = selection[1].groups[n]
        /\ Matching = {} => selection[1].returned = None

\* A group was selected and it is not the first of the list.
SelectedSecondGroup ==
    /\ Selected
    /\ Len(selection[1].groups) = 2
    /\ selection[1].returned = Some(selection[1].groups[2])

\* The endpoint answered 500 for a group id that matches a group.
MatchingGroupAnswered500 ==
    /\ ContextAnswered
    /\ Matching # {}
    /\ http_response[1].status_code = 500

\* The endpoint answered 500 for a group id that matches no group.
UnknownGroupAnswered500 ==
    /\ ContextAnswered
    /\ results # <<>>
    /\ Matching = {}
    /\ http_response[1].status_code = 500

(***************************************************************************)
(* Feed ingestion: app/ingestion/rss_handler.py on the episodes table of   *)
(* app/storage/models.py.  One feed is followed; a row of the table is the *)
(* guid of an episode of that feed.                                        *)
(***************************************************************************)
MaxEntries == 2

Guids == {"g1", "g2", "g3"}

\* the entries of a parsed feed: a feed may list a guid more than once
ParsedEpisodes ==
    UNION {[1..n -> Guids] : n \in 0..MaxEntries}

Range(seq) == {seq[i] : i \in DOMAIN seq}

\* UniqueConstraint("feed_id", "guid", name="uq_feed_guid")
uq_feed_guid(rows) ==
    \A i, j \in DOMAIN rows : rows[i] = rows[j] => i = j

\* session.flush() / session.commit(): the pending rows are inserted unless
\* the table would break its unique constraint, and then none is.
flush(rows, added) ==
    IF uq_feed_guid(rows \o added)
    THEN [raised |-> None, rows |-> rows \o added]
    ELSE [raised |-> Some("IntegrityError"), rows |-> rows]

fetch_existing_guids(rows) == Range(rows)

\* RSSFeed of app/storage/models.py: the attributes a feed row has
RSSFeedColumns ==
    {"id", "feed_url", "feed_title", "feed_description", "last_fetched_at",
     "total_episodes", "episodes", "created_at", "updated_at"}

\* reading an attribute of RSSFeed or of one of its rows
getattr_RSSFeed(name) ==
    IF name \in RSSFeedColumns THEN None ELSE Some("AttributeError")

\* upsert_feed starts by reading RSSFeed.url
upsert_feed == [raised |-> getattr_RSSFeed("url")]

\* sync_episodes: the entries whose guid is not stored are added to the
\* session, then feed.url is read for the log line, then the session is
\* flushed when something was added.
sync_episodes(rows, parsed_episodes) ==
    LET existing_guids == fetch_existing_guids(rows)
        new_records == SelectSeq(parsed_episodes,
                                 LAMBDA entry : entry \notin existing_guids)
        logged == getattr_RSSFeed("url")
        flushed == IF new_records # <<>> THEN flush(rows, new_records)
                   ELSE [raised |-> None, rows |-> rows]
    IN  IF logged # None
        THEN [raised |-> logged, returned |-> None, added |-> new_records,
              rows |-> rows, pending |-> new_records]
        ELSE IF flushed.raised # None
        THEN [raised |-> flushed.raised, returned |-> None,
              added |-> new_records, rows |-> rows, pending |-> <<>>]
        ELSE [raised |-> None, returned |-> Some(new_records),
              added |-> new_records, rows |-> flushed.rows, pending |-> <<>>]

\* ingest_feed: fetch_feed, upsert_feed, sync_episodes
ingest_feed(rows, parsed_episodes) ==
    IF upsert_feed.raised # None
    THEN [raised |-> upsert_feed.raised, returned |-> None, added |-> <<>>,
          rows |-> rows, pending |-> <<>>]
    ELSE sync_episodes(rows, parsed_episodes)

FeedCall(op, parsed_episodes, ended) ==
    Some([op              |-> op,
          parsed_episodes |-> parsed_episodes,
          stored_before   |-> episodes,
          raised          |-> ended.raised,
          returned        |-> ended.returned,
          stored_after    |-> ended.rows])

InitFeed == InitDisamb

\* an episode row is added and committed directly, as the day-7 tests do
InsertEpisode(guid) ==
    /\ pending = <<>>
    /\ episodes' = flush(episodes, <<guid>>).rows
    /\ UNCHANGED <<pending, feed_call>>
    /\ UNCHANGED <<pc, stageVars, queryVars, notFeed>>

\* POST /feeds: ingest_feed, then commit, or rollback when it raised
AddFeed(parsed_episodes) ==
    /\ pending = <<>>
    /\ LET ended == ingest_feed(episodes, parsed_episodes)
       IN  /\ feed_call' = FeedCall("ingest_feed", parsed_episodes, ended)
           /\ episodes' = ended.rows
           /\ pending' = <<>>
    /\ UNCHANGED <<pc, stageVars, queryVars, notFeed>>

\* sync_episodes called in a fresh session for the stored feed row
SyncEpisodes(parsed_episodes) ==
    /\ pending = <<>>
    /\ LET ended == sync_episodes(episodes, parsed_episodes)
       IN  /\ feed_call' = FeedCall("sync_episodes", parsed_episodes, ended)
           /\ episodes' = ended.rows
           /\ pending' = ended.pending
    /\ UNCHANGED <<pc, stageVars, queryVars, notFeed>>

\* the caller commits the session that sync_episodes left
Commit ==
    /\ pending # <<>>
    /\ episodes' = flush(episodes, pending).rows
    /\ pending' = <<>>
    /\ UNCHANGED feed_call
    /\ UNCHANGED <<pc, stageVars, queryVars, notFeed>>

\* the caller rolls the session back
Rollback ==
    /\ pending # <<>>
    /\ pending' = <<>>
    /\ UNCHANGED <<episodes, feed_call>>
    /\ UNCHANGED <<pc, stageVars, queryVars, notFeed>>

NextFeed ==
    \/ \E guid \in Guids : InsertEpisode(guid)
    \/ \E parsed_episodes \in ParsedEpisodes : AddFeed(parsed_episodes)
    \/ \E parsed_episodes \in ParsedEpisodes : SyncEpisodes(parsed_episodes)
    \/ Commit
    \/ Rollback

SpecFeed == InitFeed /\ [][NextFeed]_vars

\* the entries of the last call were all stored before it
AllStoredBefore ==
    /\ feed_call # None
    /\ Range(feed_call[1].parsed_episodes) \subseteq Range(feed_call[1].stored_before)

\* C18: no two stored episodes of the feed share a guid, and a call of
\* ingest_feed or sync_episodes for a feed whose entries are all stored
\* returns an empty list of new episodes and leaves the episode count as it was.
C18_NoDuplicateEpisodes ==
    /\ uq_feed_guid(episodes)
    /\ AllStoredBefore =>
          /\ feed_call[1].raised = None
          /\ feed_call[1].returned = Some(<<>>)
          /\ Len(feed_call[1].stored_after) = Len(feed_call[1].stored_before)

\* What does hold: stored guids stay distinct and a call whose entries are
\* all stored leaves the table as it was.
StoredGuidsDistinct ==
    /\ uq_feed_guid(episodes)
    /\ AllStoredBefore => feed_call[1].stored_after = feed_call[1].stored_before

\* ingest_feed was called again for a feed whose two entries are stored,
\* and it raised instead of returning.
ReingestRaised ==
    /\ AllStoredBefore
    /\ feed_call[1].op = "ingest_feed"
    /\ Len(feed_call[1].parsed_episodes) = 2
    /\ Len(episodes) >= 2
    /\ feed_call[1].raised = Some("AttributeError")

\* a commit after sync_episodes met a guid listed twice in one parsed feed
RepeatedGuidPending ==
    /\ Len(pending) = 2
    /\ pending[1] = pending[2]

(***************************************************************************)
(* Episode processing: process_episode_task of workers/tasks.py.  An       *)
(* episode row carries its audio_url, status, has_errors, processed_at,    *)
(* the number of its transcript segments and its chunk ids.  Lists are     *)
(* followed by their lengths.                                              *)
(***************************************************************************)
MaxSegments == 3

MaxChunks == 3

AudioUrls == {None, Some("https://example.com/audio.mp3")}

PublishedAts == {None, Some("2024-01-01")}

\* Episode(...) as sync_episodes builds it, with the defaults of the model
NewEpisode(audio_url, published_at) ==
    [audio_url |-> audio_url, published_at |-> published_at, status |-> "pending", has_errors |-> FALSE,
     processed_at |-> None, transcript_segments |-> None, chunk_ids |-> None]

\* the parameters of VectorStore.store_chunks and those without a default
store_chunks_parameters == {"chunks", "embeddings", "document_id", "metadata"}

store_chunks_required == {"chunks", "embeddings", "document_id"}

\* the keywords _run_process_episode calls store_chunks with
store_chunks_keywords == {"chunks", "embeddings", "episode_id", "metadata"}

\* VectorStore.store_chunks called with keywords: the binding of the
\* arguments, the length check, then the upsert; the ids of the chunks are
\* returned, as many as there are chunks.
store_chunks(keywords, chunks, embeddings, upsert_ok) ==
    IF ~(keywords \subseteq store_chunks_parameters)
          \/ ~(store_chunks_required \subseteq keywords)
    THEN [raised |-> Some("TypeError"), chunk_ids |-> None]
    ELSE IF chunks # embeddings
    THEN [raised |-> Some("ValueError"), chunk_ids |-> None]
    ELSE IF ~upsert_ok
    THEN [raised |-> Some("UnexpectedResponse"), chunk_ids |-> None]
    ELSE [raised |-> None, chunk_ids |-> Some(chunks)]

\* TranscriptChunker.chunk_transcript: no segments, no chunks; segments
\* without text give no chunk either, a chunk is never empty
chunk_transcript(segments, pieces) ==
    IF segments = 0 THEN 0 ELSE pieces

\* EmbeddingProcessor.process_chunks: one vector per chunk; a batch the
\* embedding service fails on is given zero vectors
process_chunks(chunks, embed_ok) == chunks

\* the except branch of _run_process_episode
mark_failed(ep) ==
    [ep EXCEPT !.status = "failed", !.has_errors = TRUE,
               !.processed_at = Some("now")]

\* the success branch of _run_process_episode
mark_completed(ep, chunk_ids) ==
    [ep EXCEPT !.chunk_ids = chunk_ids, !.status = "completed",
               !.processed_at = Some("now"), !.has_errors = FALSE]

InitTask == InitDisamb

\* an episode row is stored, as feed ingestion or the tests store one
CreateEpisode(audio_url, published_at) ==
    /\ episode = None
    /\ task.pc = "idle"
    /\ episode' = Some(NewEpisode(audio_url, published_at))
    /\ UNCHANGED task
    /\ UNCHANGED <<pc, stageVars, queryVars, notTask>>

\* the task starts: the episode is fetched and marked as processing
StartTask ==
    /\ task.pc \in {"idle", "ended"}
    /\ IF episode = None \/ episode[1].audio_url = None
       THEN /\ task' = [pc |-> "ended", segments |-> 0, chunks |-> 0,
                        embeddings |-> 0, faults |-> {},
                        raised |-> Some("ValueError")]
            /\ UNCHANGED episode
       ELSE /\ episode' = Some([episode[1] EXCEPT !.status = "processing",
                                                  !.has_errors = FALSE])
            /\ task' = [pc |-> "processing", segments |-> 0, chunks |-> 0,
                        embeddings |-> 0, faults |-> {}, raised |-> None]
    /\ UNCHANGED <<pc, stageVars, queryVars, notTask>>

\* step 1: the audio is downloaded and transcribed, the transcript stored
Transcribe(download_ok, transcription_ok, segments) ==
    /\ task.pc = "processing"
    /\ IF ~download_ok
       THEN /\ episode' = Some(mark_failed(episode[1]))
            /\ task' = [task EXCEPT !.pc = "ended",
                                    !.faults = {"download"},
                                    !.raised = Some("AudioDownloadError")]
       ELSE IF ~transcription_ok
       THEN /\ episode' = Some(mark_failed(episode[1]))
            /\ task' = [task EXCEPT !.pc = "ended",
                                    !.faults = {"transcription"},
                                    !.raised = Some("Exception")]
       ELSE /\ episode' = Some([episode[1] EXCEPT
                                   !.transcript_segments = Some(segments)])
            /\ task' = [task EXCEPT !.pc = "transcribed",
                                    !.segments = segments]
    /\ UNCHANGED <<pc, stageVars, queryVars, notTask>>

\* steps 2 and 3: the transcript is chunked and the chunks are embedded
ChunkAndEmbed(pieces, embed_ok) ==
    /\ task.pc = "transcribed"
    /\ LET chunks == chunk_transcript(task.segments, pieces)
       IN  task' = [task EXCEPT
                       !.pc = "embedded",
                       !.chunks = chunks,
                       !.embeddings = process_chunks(chunks, embed_ok),
                       !.faults = IF embed_ok \/ chunks = 0 THEN task.faults
                                  ELSE task.faults \cup {"embedding"}]
    /\ UNCHANGED episode
    /\ UNCHANGED <<pc, stageVars, queryVars, notTask>>

\* steps 4 and 5: the chunks are stored and the episode is marked
StoreChunks(upsert_ok) ==
    /\ task.pc = "embedded"
    /\ LET stored == store_chunks(store_chunks_keywords, task.chunks,
                                  task.embeddings, upsert_ok)
       IN  IF stored.raised # None
           THEN /\ episode' = Some(mark_failed(episode[1]))
                /\ task' = [task EXCEPT
                               !.pc = "ended",
                               !.faults = IF upsert_ok THEN task.faults
                                          ELSE task.faults \cup {"storing"},
                               !.raised = stored.raised]
           ELSE /\ episode' = Some(mark_completed(episode[1], stored.chunk_ids))
                /\ task' = [task EXCEPT !.pc = "ended", !.raised = None]
    /\ UNCHANGED <<pc, stageVars, queryVars, notTask>>

NextTask ==
    \/ \E audio_url \in AudioUrls, published_at \in PublishedAts :
          CreateEpisode(audio_url, published_at)
    \/ StartTask
    \/ \E download_ok, transcription_ok \in BOOLEAN, segments \in 0..MaxSegments :
          Transcribe(download_ok, transcription_ok, segments)
    \/ \E pieces \in 0..MaxChunks, embed_ok \in BOOLEAN :
          ChunkAndEmbed(pieces, embed_ok)
    \/ \E upsert_ok \in BOOLEAN : StoreChunks(upsert_ok)

SpecTask == InitTask /\ [][NextTask]_vars

\* the task has ended for an existing episode with an audio_url
TaskEnded ==
    /\ task.pc = "ended"
    /\ episode # None
    /\ episode[1].audio_url # None

\* download, transcription, embedding and storing met no failure of theirs
AllSucceeded == TaskEnded /\ task.faults = {}

\* C19: once process_episode_task has ended for an existing episode with an
\* audio_url, its status is 'completed' or 'failed' and processed_at is set;
\* a 'completed' episode has has_errors false and at least one chunk id; and
\* when every step succeeds the status reached is 'completed'.
C19_StatusTracking ==
    /\ TaskEnded =>
          /\ episode[1].status \in {"completed", "failed"}
          /\ episode[1].processed_at # None
    /\ (episode # None /\ episode[1].status = "completed") =>
          /\ ~episode[1].has_errors
          /\ episode[1].chunk_ids # None
          /\ episode[1].chunk_ids[1] >= 1
    /\ AllSucceeded => episode[1].status = "completed"

\* What does hold: an ended task leaves the episode 'failed', with has_errors
\* and processed_at set.
EndedMeansFailed ==
    TaskEnded =>
        /\ episode[1].status = "failed"
        /\ episode[1].has_errors
        /\ episode[1].processed_at # None
        /\ task.raised # None

\* every step succeeded on a transcript of two segments cut in two chunks,
\* and the episode is marked as failed
SucceededYetFailed ==
    /\ AllSucceeded
    /\ task.segments = 2
    /\ task.chunks = 2
    /\ task.embeddings = 2
    /\ task.raised = Some("TypeError")
    /\ episode[1].status = "failed"

-----------------------------------------------------------------------------
\* ContextBuilder.build_disambiguation_context.  A text is a sequence of
\* characters; the tokenizer is a byte-pair encoding in which a letter is a
\* token and a run of dots is merged into one token.

MaxOptions == 2

PerOptionLimits == {1, 2, 3}

SampleTexts ==
    {<<>>, <<"a">>, <<"a", "a", "a", "a">>, <<"a", ".", "a", "a">>,
     <<"a", "a", ".", ".">>, <<".", ".", "a">>}

OptionScores == {4, 8}

\* tokenizer.encode(text)
RECURSIVE encode(_)
encode(text) ==
    IF text = <<>> THEN <<>>
    ELSE LET front == encode(SubSeq(text, 1, Len(text) - 1))
             c     == text[Len(text)]
         IN IF c = "." /\ front # <<>> /\ front[Len(front)][1] = "."
            THEN SubSeq(front, 1, Len(front) - 1) \o <<Append(front[Len(front)], c)>>
            ELSE Append(front, <<c>>)

\* tokenizer.decode(tokens)
RECURSIVE decode(_)
decode(tokens) ==
    IF tokens = <<>> THEN <<>> ELSE Head(tokens) \o decode(Tail(tokens))

Dots == <<".", ".", ".">>

\* the sample text after the loop body: cut to max_tokens_per_option tokens
\* with "..." appended when it has more tokens than that
truncated_sample(sample, max_tokens_per_option) ==
    IF Len(encode(sample)) > max_tokens_per_option
    THEN decode(SliceTo(encode(sample), max_tokens_per_option)) \o Dots
    ELSE sample

\* the option object after the call: sample_text is assigned in place
option_after(option, max_tokens_per_option) ==
    IF option.sample_text # <<>>
    THEN [option EXCEPT !.sample_text =
             truncated_sample(option.sample_text, max_tokens_per_option)]
    ELSE option

\* f"{avg_score:.2f}": the score in hundredths
format_2f(avg_score) == avg_score * 10

\* option_text of option number i; an empty sample gives no Preview line
option_text(i, option, max_tokens_per_option) ==
    [number      |-> i,
     title       |-> option.title,
     description |-> option.description,
     relevance   |-> format_2f(option.avg_score),
     preview     |-> IF option.sample_text # <<>>
                     THEN Some(option_after(option, max_tokens_per_option).sample_text)
                     ELSE None]

\* the string returned: the heading and one option_text per option
build_disambiguation_context(opts, max_tokens_per_option) ==
    [text    |-> <<"Multiple relevant documents found. Please select the most relevant one:\n">>
                 \o [i \in DOMAIN opts |-> option_text(i, opts[i], max_tokens_per_option)],
     options |-> [i \in DOMAIN opts |-> option_after(opts[i], max_tokens_per_option)]]

InitOptions == InitDisamb

\* the caller's list gets one more option
AddOption(avg_score, sample) ==
    /\ contexts = <<>>
    /\ Len(option_list) < MaxOptions
    /\ LET option == [group_id    |-> DocumentIds[Len(option_list) + 1],
                      title       |-> "Document " \o DocumentIds[Len(option_list) + 1],
                      description |-> "1 relevant results",
                      avg_score   |-> avg_score,
                      sample_text |-> sample]
       IN /\ option_list' = Append(option_list, option)
          /\ options_given' = Append(options_given, option)
    /\ UNCHANGED <<pc, stageVars, queryVars, contexts, notOption>>

BuildDisambiguationContext(max_tokens_per_option) ==
    /\ option_list # <<>>
    /\ Len(contexts) < 2
    /\ LET out == build_disambiguation_context(option_list, max_tokens_per_option)
       IN /\ contexts' = Append(contexts,
                [max_tokens_per_option |-> max_tokens_per_option, text |-> out.text])
          /\ option_list' = out.options
    /\ UNCHANGED <<pc, stageVars, queryVars, options_given, notOption>>

NextOptions ==
    \/ \E avg_score \in OptionScores, sample \in SampleTexts : AddOption(avg_score, sample)
    \/ \E max_tokens_per_option \in PerOptionLimits :
          BuildDisambiguationContext(max_tokens_per_option)

SpecOptions == InitOptions /\ [][NextOptions]_vars

CalledTwice ==
    /\ Len(contexts) = 2
    /\ contexts[1].max_tokens_per_option = contexts[2].max_tokens_per_option

\* C25: build_disambiguation_context leaves every field of every option it is
\* given unchanged, sample_text in particular, and two calls with the same
\* options list and the same max_tokens_per_option return the same string.
C25_OptionsReadOnly ==
    /\ contexts # <<>> => option_list = options_given
    /\ CalledTwice => contexts[1].text = contexts[2].text

\* Two calls with the same max_tokens_per_option return the same string, and
\* only sample_text of an option is ever assigned.
SameStringTwice ==
    /\ CalledTwice => contexts[1].text = contexts[2].text
    /\ \A i \in DOMAIN option_list :
          [option_list[i] EXCEPT !.sample_text = <<>>]
             = [options_given[i] EXCEPT !.sample_text = <<>>]

\* an option's sample_text of 4 tokens is cut to 2 tokens and '...' by a call
\* with max_tokens_per_option = 2
SampleTextAssigned ==
    /\ contexts # <<>>
    /\ contexts[1].max_tokens_per_option = 2
    /\ \E i \in DOMAIN option_list :
          /\ options_given[i].sample_text = <<"a", "a", "a", "a">>
          /\ option_list[i].sample_text = <<"a", "a", ".", ".", ".">>

\* after a call with a smaller max_tokens_per_option, a call does not return
\* the string it returns for the options as they were given
EarlierCallShows ==
    /\ Len(contexts) = 2
    /\ contexts[2].text
          # build_disambiguation_context(options_given,
                                         contexts[2].max_tokens_per_option).text

-----------------------------------------------------------------------------
\* The documents API (upload_pdf, process_document) and the worker's
\* process_pdf task, for one document.  The worker is the one start_celery
\* starts: one task at a time.

MaxRequests == 3

\* str(e) of an exception a collaborator raises
ErrorMessages == {"", "PDF processing failed"}

\* Document(...), with the column defaults
NewDocument ==
    [status |-> "pending", has_errors |-> FALSE, error_message |-> None,
     extracted_text |-> FALSE, processed_at |-> "none"]

\* process_pdf_task.delay(...)
PdfTask(file_content, reprocess) ==
    [file_content |-> file_content, reprocess |-> reprocess]

\* tasks of the document queued or running
ActiveTasks == Len(task_queue) + (IF running = None THEN 0 ELSE 1)

\* upload_pdf: the check made on a document with the same file_hash
\* (reprocess_existing = True)
upload_pdf_rejects(doc) == doc.status = "processing"

\* process_document: 409 unless the document is not processing, or has been
\* for more than 5 minutes by its processed_at
process_document_rejects(doc) ==
    doc.status = "processing" /\ ~(doc.processed_at = "old")

\* the reset both handlers commit before they queue the task
reset_for_upload(doc) ==
    [doc EXCEPT !.status = "pending", !.has_errors = FALSE, !.error_message = None]

reset_for_process(doc) ==
    [doc EXCEPT !.status = "pending", !.has_errors = FALSE, !.error_message = None,
                !.processed_at = "none"]

\* _run_process_pdf: the commit that opens the task
mark_processing(doc) ==
    [doc EXCEPT !.status = "processing", !.has_errors = FALSE, !.error_message = None]

\* the except branch
mark_failed_pdf(doc, message) ==
    [doc EXCEPT !.status = "failed", !.has_errors = TRUE,
                !.error_message = Some(message), !.processed_at = "recent"]

CannotReprocess ==
    "Cannot reprocess: no stored PDF bytes available and extracted_text is empty. Re-upload the PDF with reprocess_existing=true to re-queue using fresh bytes."

\* the body of _run_process_pdf after the opening commit, with a database
\* that takes its commits: what it leaves in the row and whether it returns
\* or raises.  env says how the collaborators behave.
process_pdf_body(t, doc, env) ==
    IF ~t.file_content /\ ~t.reprocess
    THEN [document |-> mark_failed_pdf(doc, "File content is required for new documents"),
          outcome |-> "raised"]
    ELSE IF t.reprocess /\ ~t.file_content /\ doc.extracted_text
    THEN IF env.metadata_ok
         THEN [document |-> [doc EXCEPT !.status = "completed", !.processed_at = "recent"],
               outcome |-> "returned"]
         ELSE [document |-> mark_failed_pdf(doc, env.message),
               outcome |-> "raised"]
    ELSE IF t.reprocess /\ ~t.file_content /\ ~doc.extracted_text
    THEN [document |-> mark_failed_pdf(doc, CannotReprocess),
          outcome |-> "returned"]
    ELSE IF ~env.processor_ok
    THEN [document |-> mark_failed_pdf(doc, env.message),
          outcome |-> "raised"]
    ELSE LET text == env.chunks \/ doc.extracted_text
         IN IF text /\ ~env.metadata_ok
            THEN [document |-> mark_failed_pdf([doc EXCEPT !.extracted_text = text],
                                               env.message),
                  outcome |-> "raised"]
            ELSE [document |-> [doc EXCEPT !.status = "completed",
                                           !.processed_at = "recent",
                                           !.extracted_text = text],
                  outcome |-> "returned"]

\* _run_process_pdf after the opening commit.  Every path ends with a commit
\* inside the try block; when the database refuses it, the commit of the
\* except branch, on the same session, is refused too, the exception leaves
\* the task and the row stays as the opening commit left it.
run_process_pdf(t, doc, env) ==
    IF env.commit_ok THEN process_pdf_body(t, doc, env)
    ELSE [document |-> doc, outcome |-> "raised"]

Environments ==
    [processor_ok : BOOLEAN, chunks : BOOLEAN, metadata_ok : BOOLEAN,
     message : ErrorMessages, commit_ok : BOOLEAN]

InitDocs == InitDisamb

Answer(op, code, detail, active) ==
    [op |-> op, status_code |-> code, detail |-> detail, active |-> active]

\* upload_pdf of a file not seen before: the row is created and a task queued
UploadNew ==
    /\ document = None
    /\ document' = Some(NewDocument)
    /\ task_queue' = Append(task_queue, PdfTask(TRUE, FALSE))
    /\ accepted' = accepted + 1
    /\ api_answer' = Some(Answer("upload_pdf", 200, "", 0))
    /\ UNCHANGED <<pc, stageVars, queryVars, running, admitted, last_run, notDoc>>

\* upload_pdf of the same file with reprocess_existing: the status check
UploadCheck ==
    /\ document # None
    /\ accepted + Len(admitted) < MaxRequests
    /\ IF upload_pdf_rejects(document[1])
       THEN /\ api_answer' = Some(Answer("upload_pdf", 409,
                                         "Document is already being processed",
                                         ActiveTasks))
            /\ UNCHANGED admitted
       ELSE /\ admitted' = Append(admitted, [op |-> "upload_pdf", active |-> ActiveTasks,
                                             found |-> document[1].status])
            /\ UNCHANGED api_answer
    /\ UNCHANGED <<pc, stageVars, queryVars, document, task_queue, running, last_run,
                   accepted, notDoc>>

\* process_document: the status check
ProcessCheck ==
    /\ document # None
    /\ accepted + Len(admitted) < MaxRequests
    /\ IF process_document_rejects(document[1])
       THEN /\ api_answer' = Some(Answer("process_document", 409,
                                         "Document is already being processed",
                                         ActiveTasks))
            /\ UNCHANGED admitted
       ELSE /\ admitted' = Append(admitted,
                                  [op |-> "process_document", active |-> ActiveTasks,
                                   found |-> document[1].status])
            /\ UNCHANGED api_answer
    /\ UNCHANGED <<pc, stageVars, queryVars, document, task_queue, running, last_run,
                   accepted, notDoc>>

\* an admitted request commits the reset, queues its task and answers
Requeue(n) ==
    /\ n \in DOMAIN admitted
    /\ LET req == admitted[n]
       IN /\ document' = Some(IF req.op = "upload_pdf"
                              THEN reset_for_upload(document[1])
                              ELSE reset_for_process(document[1]))
          /\ task_queue' = Append(task_queue,
                                  PdfTask(req.op = "upload_pdf", TRUE))
          /\ api_answer' = Some(Answer(req.op, 200, "", req.active))
    /\ admitted' = SubSeq(admitted, 1, n - 1) \o SubSeq(admitted, n + 1, Len(admitted))
    /\ accepted' = accepted + 1
    /\ UNCHANGED <<pc, stageVars, queryVars, running, last_run, notDoc>>

\* the worker takes the oldest task: status 'processing' is committed
WorkerStart ==
    /\ running = None
    /\ task_queue # <<>>
    /\ running' = Some(Head(task_queue))
    /\ task_queue' = Tail(task_queue)
    /\ document' = Some(mark_processing(document[1]))
    /\ UNCHANGED <<pc, stageVars, queryVars, admitted, api_answer, last_run, accepted,
                   notDoc>>

\* the task runs to its end
WorkerEnd(env) ==
    /\ running # None
    /\ LET out == run_process_pdf(running[1], document[1], env)
       IN /\ document' = Some(out.document)
          /\ last_run' = Some([task |-> running[1], env |-> env,
                               outcome |-> out.outcome, document |-> out.document])
    /\ running' = None
    /\ UNCHANGED <<pc, stageVars, queryVars, task_queue, admitted, api_answer, accepted,
                   notDoc>>

\* five minutes pass since processed_at
FiveMinutesPass ==
    /\ document # None
    /\ document[1].processed_at = "recent"
    /\ document' = Some([document[1] EXCEPT !.processed_at = "old"])
    /\ UNCHANGED <<pc, stageVars, queryVars, task_queue, running, admitted, api_answer,
                   last_run, accepted, notDoc>>

NextDocs ==
    \/ UploadNew
    \/ UploadCheck
    \/ ProcessCheck
    \/ \E n \in 1..MaxRequests : Requeue(n)
    \/ WorkerStart
    \/ \E env \in Environments : WorkerEnd(env)
    \/ FiveMinutesPass

SpecDocs == InitDocs /\ [][NextDocs]_vars

\* C26: a request to (re)process a document that has a process_pdf task
\* queued or running is answered 409 'Document is already being processed',
\* and at most one process_pdf task of the document is queued or running.
C26_NeverProcessedTwice ==
    /\ ActiveTasks <= 1
    /\ api_answer # None =>
          (api_answer[1].active > 0 => api_answer[1].status_code = 409)

\* the last task ended with its commits refused
CommitsRefused == last_run # None /\ ~last_run[1].env.commit_ok

\* What the status check gives: unless the last task's commits were refused,
\* the row is 'processing' only while the worker runs a task of the
\* document, and a request is answered 409 only when a task of the document
\* is queued or running.
RejectedOnlyWhileRunning ==
    /\ (document # None /\ document[1].status = "processing")
          => (running # None \/ CommitsRefused)
    /\ api_answer # None =>
          (api_answer[1].status_code = 409
              => (api_answer[1].active > 0 \/ CommitsRefused))

\* a second task was queued while the first was still waiting for the worker
TwoTasksQueued ==
    /\ Len(task_queue) = 2
    /\ api_answer[1].status_code = 200
    /\ api_answer[1].active = 1

\* process_document found the row 'processing' with a processed_at more than
\* five minutes old, left by an earlier run, and let the request through
\* while the worker was running a task of the document
TakenForStuck ==
    /\ running # None
    /\ \E n \in DOMAIN admitted :
          /\ admitted[n].op = "process_document"
          /\ admitted[n].found = "processing"

\* process_document queued a task while the worker was running one
QueuedWhileRunning ==
    /\ running # None
    /\ task_queue # <<>>
    /\ api_answer[1].op = "process_document"
    /\ api_answer[1].status_code = 200

\* C29: when _run_process_pdf ends, by returning or by raising, the
\* document's status is 'completed' or 'failed', never 'processing'; it is
\* 'failed', with has_errors true and a non-empty error_message, exactly
\* when processing did not succeed; 'completed' implies has_errors false.
C29_TerminalStatus ==
    last_run # None =>
        LET doc == last_run[1].document
        IN /\ doc.status \in {"completed", "failed"}
           /\ last_run[1].outcome = "raised" => doc.status = "failed"
           /\ doc.status = "failed"
                 => /\ doc.has_errors
                    /\ doc.error_message # None
                    /\ doc.error_message # Some("")
           /\ doc.status = "completed"
                 => /\ ~doc.has_errors
                    /\ last_run[1].outcome = "returned"

\* With a database that takes the commits, the task leaves 'completed' or
\* 'failed'; 'failed' comes with has_errors and an error_message that is
\* str(e), 'completed' with has_errors false and no error_message, and a
\* task that raises leaves 'failed'.
TerminalWhenCommitted ==
    (last_run # None /\ last_run[1].env.commit_ok) =>
        LET doc == last_run[1].document
        IN /\ doc.status \in {"completed", "failed"}
           /\ last_run[1].outcome = "raised" => doc.status = "failed"
           /\ doc.status = "failed" => (doc.has_errors /\ doc.error_message # None)
           /\ doc.status = "completed" => (~doc.has_errors /\ doc.error_message = None)

\* the processor raised an exception whose str() is empty: the row is
\* 'failed' with error_message ''
FailedWithoutMessage ==
    /\ last_run # None
    /\ last_run[1].outcome = "raised"
    /\ last_run[1].document.status = "failed"
    /\ last_run[1].document.error_message = Some("")

\* the database refused the closing commits: the task has ended and the row
\* is still 'processing'
LeftProcessing ==
    /\ last_run # None
    /\ running = None
    /\ document[1].status = "processing"


-----------------------------------------------------------------------------
\* disambiguate_results on documents and sections whose names hold the
\* separator of a section group's id.

SeparatorDocuments == <<"a", "a_b", "d3", "d4", "d5", "d6">>

SeparatorSections(doc) ==
    IF doc = "a" THEN {"", "b_c"} ELSE IF doc = "a_b" THEN {"", "c"} ELSE {""}

InitIds == InitDisamb

\* the next document sends its chunk
AddNamedResult(sec, sc) ==
    /\ Len(results) < Len(SeparatorDocuments)
    /\ sec \in SeparatorSections(SeparatorDocuments[Len(results) + 1])
    /\ AddResult(SeparatorDocuments[Len(results) + 1], sec, sc, 100)

NextIds ==
    \/ \E sec \in {"", "b_c", "c"}, sc \in ScoreChoices(results) : AddNamedResult(sec, sc)
    \/ \E mg \in MaxGroupsArgs, thr \in Thresholds : Disambiguate(mg, thr)

SpecIds == InitIds /\ [][NextIds]_vars

\* C27: in the group list returned by disambiguate_results no two groups
\* have the same entity_id, so select_entity_group finds the one group an
\* option's group_id names.
C27_UniqueGroupIds ==
    Disambiguated =>
        /\ \A n, m \in DOMAIN groups :
              groups[n].entity_id = groups[m].entity_id => n = m
        /\ \A n \in DOMAIN groups :
              select_entity_group(groups, groups[n].entity_id) = Some(groups[n])

\* Section groups of documents 'a' (section 'b_c') and 'a_b' (section 'c')
\* are both returned as 'a_b_c'; the lookup by that id gives the first only.
SameIdTwoDocuments ==
    /\ Disambiguated
    /\ \E n, m \in DOMAIN groups :
          /\ n < m
          /\ groups[n].entity_id = "a_b_c"
          /\ groups[m].entity_id = "a_b_c"
          /\ groups[n].document_id # groups[m].document_id
          /\ select_entity_group(groups, "a_b_c") = Some(groups[n])

\* Document groups, and section groups of documents whose ids hold no
\* separator, have distinct ids.
DocumentGroupIdsDistinct ==
    Disambiguated =>
        \A n, m \in DOMAIN groups :
            (/\ groups[n].entity_id = groups[m].entity_id
             /\ \/ groups[n].entity_type = "document"
                \/ {groups[n].document_id, groups[m].document_id} \cap {"a", "a_b"} = {})
               => n = m

-----------------------------------------------------------------------------
\* TranscriptChunker.  A text is a sequence of characters; positions are
\* counted from 0 as in the code, and text[a:b] is Slice(text, a, b).

MaxChunkText == 3

MaxChunkSegments == 2

ChunkCharacters == {"a", " ", "."}

ChunkSizes == {1, 2}

Overlaps == {0, 4}

ChunkWhitespace == {" ", "\n"}

SentenceEnders == {".", "!", "?"}

SearchWindow == 200

CharsPerToken == 4

Slice(text, a, b) == SubSeq(text, a + 1, b)

At(text, i) == text[i + 1]

\* str.strip()
RECURSIVE chunk_lstrip(_)
chunk_lstrip(text) ==
    IF text # <<>> /\ Head(text) \in ChunkWhitespace THEN chunk_lstrip(Tail(text)) ELSE text

RECURSIVE chunk_rstrip(_)
chunk_rstrip(text) ==
    IF text # <<>> /\ text[Len(text)] \in ChunkWhitespace
    THEN chunk_rstrip(SubSeq(text, 1, Len(text) - 1)) ELSE text

chunk_strip(text) == chunk_lstrip(chunk_rstrip(text))

\* "\n\n".join(texts)
RECURSIVE join_segments(_)
join_segments(texts) ==
    IF texts = <<>> THEN <<>>
    ELSE IF Len(texts) = 1 THEN texts[1]
    ELSE texts[1] \o <<"\n", "\n">> \o join_segments(Tail(texts))

\* the text chunk_transcript combines: the segments that have text
combined_text(segs) == join_segments(SelectSeq(segs, LAMBDA t : t # <<>>))

\* _find_sentence_boundary: the end of the last match of
\* [.!?]+\s+["')]* in text[search_start:end], else the start of the last
\* match of \s+\S+, else end
find_sentence_boundary(text, start, end) ==
    LET search_start == Max(start, end - SearchWindow)
        IsSpace(i)   == At(text, i) \in ChunkWhitespace
        enders       == {i \in search_start..(end - 2) :
                            At(text, i) \in SentenceEnders /\ IsSpace(i + 1)}
        words        == {i \in search_start..(end - 2) :
                            /\ IsSpace(i)
                            /\ i = search_start \/ ~IsSpace(i - 1)
                            /\ \E k \in (i + 1)..(end - 1) :
                                  /\ ~IsSpace(k)
                                  /\ \A j \in i..(k - 1) : IsSpace(j)}
    IN IF enders # {}
       THEN LET i == CHOOSE x \in enders : \A y \in enders : y <= x
            IN CHOOSE k \in (i + 2)..end :
                  /\ \A j \in (i + 1)..(k - 1) : IsSpace(j)
                  /\ k = end \/ ~IsSpace(k)
       ELSE IF words # {}
       THEN CHOOSE x \in words : \A y \in words : y <= x
       ELSE end

\* the characters one chunk may span
chunk_span(c) ==
    IF c.chunk_by = "tokens" THEN c.max_chunk_size * CharsPerToken ELSE c.max_chunk_size

\* where the chunk that starts at c.start ends
chunk_end(c) ==
    LET end == Min(c.start + chunk_span(c), Len(c.text))
    IN IF end < Len(c.text)
       THEN LET sentence_end == find_sentence_boundary(c.text, c.start, end)
            IN IF sentence_end > c.start THEN sentence_end ELSE end
       ELSE end

\* a bug: the overlap alone decides where the next chunk starts
next_start_overlap_only(c, end) == end - c.overlap

\* start = max(end - self.overlap, start + 1)
next_start(c, end) == Max(end - c.overlap, c.start + 1)

InitChunk == InitDisamb

\* one more character of the last segment
TypeSegment(ch) ==
    /\ chunker.pc = "input"
    /\ transcript_segments # <<>>
    /\ Len(join_segments(transcript_segments))
          < MaxChunkText + 2 * (Len(transcript_segments) - 1)
    /\ transcript_segments' =
          [transcript_segments EXCEPT ![Len(transcript_segments)] = Append(@, ch)]
    /\ UNCHANGED <<pc, stageVars, queryVars, chunker, notChunk>>

\* one more segment, empty so far, after a segment of at most one character
NewSegment ==
    /\ chunker.pc = "input"
    /\ Len(transcript_segments) < MaxChunkSegments
    /\ transcript_segments # <<>> => Len(transcript_segments[Len(transcript_segments)]) <= 1
    /\ transcript_segments' = Append(transcript_segments, <<>>)
    /\ UNCHANGED <<pc, stageVars, queryVars, chunker, notChunk>>

\* chunk_transcript up to the loop of _chunk_by_tokens or
\* _chunk_by_characters; without segments, or without text, it returns []
StartChunking(max_chunk_size, overlap, chunk_by) ==
    /\ chunker.pc = "input"
    /\ LET text == combined_text(transcript_segments)
       IN chunker' = [pc             |-> IF text = <<>> THEN "returned" ELSE "loop",
                      max_chunk_size |-> max_chunk_size,
                      overlap        |-> overlap,
                      chunk_by       |-> chunk_by,
                      text           |-> text,
                      start          |-> 0,
                      chunks         |-> <<>>,
                      returned       |-> <<>>]
    /\ UNCHANGED <<pc, stageVars, queryVars, transcript_segments, notChunk>>

\* one iteration of the while loop
ChunkStep ==
    /\ chunker.pc = "loop"
    /\ chunker.start < Len(chunker.text)
    /\ LET end == chunk_end(chunker)
       IN chunker' = [chunker EXCEPT
                         !.chunks = Append(@, chunk_strip(Slice(chunker.text,
                                                                 chunker.start, end))),
                         !.start  = next_start(chunker, end)]
    /\ UNCHANGED <<pc, stageVars, queryVars, transcript_segments, notChunk>>

\* the loop is left: the non-empty chunks are returned
ChunkReturn ==
    /\ chunker.pc = "loop"
    /\ chunker.start >= Len(chunker.text)
    /\ chunker' = [chunker EXCEPT
                      !.pc = "returned",
                      !.returned = SelectSeq(chunker.chunks, LAMBDA t : t # <<>>)]
    /\ UNCHANGED <<pc, stageVars, queryVars, transcript_segments, notChunk>>

NextChunk ==
    \/ \E ch \in ChunkCharacters : TypeSegment(ch)
    \/ NewSegment
    \/ \E max_chunk_size \in ChunkSizes, overlap \in Overlaps,
          chunk_by \in {"tokens", "characters"} :
          StartChunking(max_chunk_size, overlap, chunk_by)
    \/ ChunkStep
    \/ ChunkReturn

SpecChunk == InitChunk /\ [][NextChunk]_vars

\* the interpreter keeps running the loop it is in
SpecChunkFair == SpecChunk /\ WF_vars(ChunkStep) /\ WF_vars(ChunkReturn)

\* C30: _chunk_by_characters and _chunk_by_tokens terminate for every text
\* and every max_chunk_size >= 1 and overlap >= 0, overlap >= max_chunk_size
\* included: the start index strictly increases at every iteration and the
\* loop is left; no chunk returned is empty; an empty text and a transcript
\* whose segments are all empty give an empty list.
C30_ChunkingTerminates ==
    /\ (chunker.pc = "loop") ~> (chunker.pc = "returned")
    /\ [][(chunker.pc = "loop" /\ chunker'.pc = "loop")
              => chunker'.start > chunker.start]_vars
    /\ [](chunker.pc = "loop" => Len(chunker.chunks) <= Len(chunker.text))
    /\ [](chunker.pc = "returned" =>
            /\ \A n \in DOMAIN chunker.returned : chunker.returned[n] # <<>>
            /\ (\A n \in DOMAIN transcript_segments : transcript_segments[n] = <<>>)
                  => chunker.returned = <<>>)

\* C30 witness: a text cut by characters with overlap 4 >= max_chunk_size 1
\* was chunked to its end and gave several chunks.
C30_Witness ==
    /\ chunker.pc = "returned"
    /\ chunker.chunk_by = "characters"
    /\ chunker.overlap >= chunker.max_chunk_size
    /\ chunker.overlap > 0
    /\ Len(chunker.returned) >= 2
    /\ Len(chunker.chunks) > Len(chunker.returned)

\* two segments without text were chunked to the empty list
EmptySegmentsNoChunk ==
    /\ chunker.pc = "returned"
    /\ Len(transcript_segments) = 2
    /\ \A n \in DOMAIN transcript_segments : transcript_segments[n] = <<>>
    /\ chunker.returned = <<>>

====
